---- MODULE Spec2Model ----
(***************************************************************************)
(* The giveaway lifecycle engine of GiveAwayBot: the JSON record store     *)
(* (src/database.py), the lifecycle scheduler (src/utils/scheduler.py),    *)
(* the winner selector (src/utils/helpers.py) and the handlers that drive  *)
(* them (src/handlers/*.py, src/bot.py).                                   *)
(*                                                                         *)
(* Execution model.  Everything runs on one asyncio event loop.  A         *)
(* coroutine gives up the loop only at an await that really suspends: a    *)
(* network call of the chat client (send_message, get_users, reply,        *)
(* edit_text, answer) or asyncio.sleep.  No method of JSONDatabase         *)
(* suspends: its only inner await is `async with self.lock` in save(),     *)
(* the lock is held over the synchronous _save_data alone and is therefore *)
(* always free when it is requested.  end_giveaway is split at its         *)
(* suspensions: an action is the code between two of them.  A command      *)
(* handler is one action holding all its store calls; the replies it sends *)
(* between them are not modelled as points where other coroutines run.     *)
(* The join handlers (/part, verify_sub_, check_subscription) are split at  *)
(* their calls of the channel-subscription check, whose answer is any.     *)
(* The clock is read as one value `now` inside an action.  Writing the     *)
(* file is assumed to succeed, except in the creation wizard, where the    *)
(* write inside create_giveaway may fail.                                  *)
(*                                                                         *)
(* Time.  The clock counts periods that are longer than the misfire grace  *)
(* time of a job (60 s); end times lie on period boundaries.               *)
(***************************************************************************)
EXTENDS Integers, Sequences, FiniteSets, TLC

\* ---- bounds of the model ------------------------------------------------
NumUsers == 2
MaxTime == 1
NumSuffixes == 1
MaxCreates == 2
MaxWinnerCount == 1
MaxRestarts == 1
MaxEdits == 1
PoolSize == 3
MaxCalls == 4
MaxStoreCalls == 6
MaxChannels == 2

\* ---- program constants ----------------------------------------------------
auto_save_threshold == 10
LogLimit == 5000
\* config.COOLDOWN_PARTICIPATE and config.COOLDOWN_CHECK, in clock periods
COOLDOWN_PARTICIPATE == 1
COOLDOWN_CHECK == 1
\* the largest winner count the creation wizard accepts
MaxWinners == 100

Users == 1..NumUsers
Times == 0..MaxTime
Suffixes == 1..NumSuffixes
Serials == 1..MaxCreates

\* A giveaway ID is "GIVEAWAY_<timestamp>_<random suffix>": the pair of the
\* period it was generated in and what distinguishes it within the period
\* (the second and the random suffix drawn).
GiveawayIds == Times \X Suffixes
NoId == <<>>

\* generate_giveaway_id: every ID the call can return at second `now`.
generate_giveaway_id(now) == {<<now, x>> : x \in Suffixes}

\* ---- Python dicts: insertion-ordered maps, as sequences of entries -------
Keys(D) == {D[i].k : i \in 1..Len(D)}
Has(D, key) == key \in Keys(D)
Idx(D, key) == CHOOSE i \in 1..Len(D) : D[i].k = key
Get(D, key) == D[Idx(D, key)].v
Put(D, key, val) ==
    IF Has(D, key) THEN [D EXCEPT ![Idx(D, key)] = [k |-> key, v |-> val]]
    ELSE Append(D, [k |-> key, v |-> val])
KeepKey(key, e) == e.k # key
Del(D, key) == SelectSeq(D, LAMBDA e : KeepKey(key, e))
KeyList(D) == [i \in 1..Len(D) |-> D[i].k]
Range(q) == {q[i] : i \in 1..Len(q)}
\* dict.update(updates) on a record value
Merge(r, updates) ==
    [f \in DOMAIN r |-> IF f \in DOMAIN updates THEN updates[f] ELSE r[f]]

\* ---- the store: self.data, the backing file, auto_save_counter ----------
ZeroStats == [total_participations |-> 0, total_wins |-> 0, total_removals |-> 0]

\* _get_default_data: the empty store
DefaultData ==
    [giveaways |-> <<>>, participants |-> <<>>, removed_participants |-> <<>>,
     winners |-> <<>>, logs |-> <<>>, giveaway_counters |-> 0,
     user_stats |-> [u \in Users |-> ZeroStats]]

\* A store value st bundles what the store's methods read and write:
\* st.data (self.data), st.file (the JSON file), st.ctr (auto_save_counter).

\* save / _save_data: the file becomes a copy of self.data
save(st) == [st EXCEPT !.file = st.data]

\* auto_save_check that only counts
auto_save_check_never(st) == [st EXCEPT !.ctr = st.ctr + 1]

\* auto_save_check: tick the counter, save and reset it at the threshold
auto_save_check(st) ==
    IF st.ctr + 1 >= auto_save_threshold
    THEN [save(st) EXCEPT !.ctr = 0]
    ELSE [st EXCEPT !.ctr = st.ctr + 1]

\* get_giveaway
HasGiveaway(data, id) == Has(data.giveaways, id)
get_giveaway(data, id) == Get(data.giveaways, id)

\* update_user_stats(user_id, stat_type, 1)
update_user_stats(st, u, stat) ==
    LET old == st.data.user_stats[u]
        new == [old EXCEPT ![stat] = old[stat] + 1]
    IN  auto_save_check([st EXCEPT !.data.user_stats[u] = new])

\* add_log: append, keep the last LogLimit entries, tick.  The timestamp of
\* an entry (datetime.now, in microseconds) is later than that of every entry
\* made before: it is modelled by a serial.  The list is a run of entries
\* newest first (what a sort of get_recent_logs left) followed by the entries
\* appended since, so the latest stamp stands at one of its two ends.
LastN(q, n) == IF Len(q) > n THEN SubSeq(q, Len(q) - n + 1, Len(q)) ELSE q
Later(a, b) == IF a > b THEN a ELSE b
Min(a, b) == IF a < b THEN a ELSE b
Newest(logs) ==
    IF logs = <<>> THEN 0 ELSE Later(logs[1].timestamp, logs[Len(logs)].timestamp)
add_log(st, type, u, id, details) ==
    LET entry == [type |-> type, user_id |-> u, giveaway_id |-> id, details |-> details,
                  timestamp |-> Newest(st.data.logs) + 1]
    IN  auto_save_check([st EXCEPT !.data.logs = LastN(Append(st.data.logs, entry), LogLimit)])

\* set_cooldown touches only user_cooldowns (not tracked here) and ticks
set_cooldown(st) == auto_save_check(st)

\* create_giveaway(giveaway_id, giveaway_data): the record is written under
\* the ID whether or not the ID is already a key; the participant bucket is
\* created only when missing; the month counter is incremented; save().
\* created_at (a microsecond timestamp) is modelled by the ordinal of the
\* creation.  This is the call whose save succeeds.
create_giveaway(st, id, start_time, end_time, winner_count) ==
    LET d == st.data
        rec == [status |-> "active", start_time |-> start_time, end_time |-> end_time,
                winner_count |-> winner_count, participants_count |-> 0,
                winners_selected |-> FALSE, ended_at |-> -1,
                created_at |-> d.giveaway_counters + 1]
        d1 == [d EXCEPT !.giveaways = Put(d.giveaways, id, rec),
                        !.participants = IF Has(d.participants, id) THEN d.participants
                                         ELSE Put(d.participants, id, <<>>),
                        !.giveaway_counters = d.giveaway_counters + 1]
    IN  save([st EXCEPT !.data = d1])

\* get_active_giveaways: status active and end_time > now, in dict order
IsActiveAt(e, now) == e.v.status = "active" /\ e.v.end_time > now
get_active_giveaways(data, now) ==
    KeyList(SelectSeq(data.giveaways, LAMBDA e : IsActiveAt(e, now)))

\* get_expired_giveaways with the comparison of get_active_giveaways
get_expired_giveaways_not_yet(data, now) ==
    KeyList(SelectSeq(data.giveaways, LAMBDA e : IsActiveAt(e, now)))

\* get_expired_giveaways: status active and end_time <= now, in dict order
IsExpiredAt(e, now) == e.v.status = "active" /\ e.v.end_time <= now
get_expired_giveaways(data, now) ==
    KeyList(SelectSeq(data.giveaways, LAMBDA e : IsExpiredAt(e, now)))

\* update_giveaway that writes nothing
update_giveaway_skipped(st, id, updates) == [st |-> st, ok |-> FALSE]

\* update_giveaway(giveaway_id, updates): [st, ok]
update_giveaway(st, id, updates) ==
    IF HasGiveaway(st.data, id)
    THEN [st |-> auto_save_check(
                   [st EXCEPT !.data.giveaways =
                       Put(st.data.giveaways, id, Merge(get_giveaway(st.data, id), updates))]),
          ok |-> TRUE]
    ELSE [st |-> st, ok |-> FALSE]

\* get_participants(giveaway_id): the active records of the bucket
Bucket(data, id) == IF Has(data.participants, id) THEN Get(data.participants, id) ELSE <<>>
IsActiveRecord(e) == e.v.is_active
get_participants(data, id) == SelectSeq(Bucket(data, id), IsActiveRecord)

\* is_participant that looks for the bucket of the giveaway only
is_participant_bucket_only(data, id, u) == Has(data.participants, id)

\* is_participant(giveaway_id, user_id)
is_participant(data, id, u) ==
    Has(Bucket(data, id), u) /\ Get(Bucket(data, id), u).is_active

\* add_participant without the status check of lines 304-305
add_participant_any_status(st, id, u, now) ==
    IF ~HasGiveaway(st.data, id)
    THEN [st |-> st, ok |-> FALSE, msg |-> "Giveaway not found"]
    ELSE IF get_giveaway(st.data, id).end_time <= now
    THEN [st |-> st, ok |-> FALSE, msg |-> "Giveaway has ended"]
    ELSE
      LET d == st.data
          d0 == IF Has(d.participants, id) THEN d
                ELSE [d EXCEPT !.participants = Put(d.participants, id, <<>>)]
          bucket == Get(d0.participants, id)
      IN  IF ~Has(bucket, u)
          THEN LET bucket1 == Put(bucket, u, [user_id |-> u, is_active |-> TRUE])
                   g1 == [get_giveaway(d0, id) EXCEPT !.participants_count = Len(bucket1)]
                   d1 == [d0 EXCEPT !.participants = Put(d0.participants, id, bucket1),
                                    !.giveaways = Put(d0.giveaways, id, g1)]
                   st1 == update_user_stats([st EXCEPT !.data = d1], u, "total_participations")
               IN  [st |-> auto_save_check(st1), ok |-> TRUE,
                    msg |-> "Successfully joined giveaway"]
          ELSE [st |-> [st EXCEPT !.data = d0], ok |-> FALSE,
                msg |-> "Already joined this giveaway"]

\* add_participant without the "user_key not in participants" check of line
\* 330: the record of a user who joins again is written over
add_participant_again(st, id, u, now) ==
    IF ~HasGiveaway(st.data, id)
    THEN [st |-> st, ok |-> FALSE, msg |-> "Giveaway not found"]
    ELSE IF get_giveaway(st.data, id).status # "active"
    THEN [st |-> st, ok |-> FALSE, msg |-> "Giveaway is not active"]
    ELSE IF get_giveaway(st.data, id).end_time <= now
    THEN [st |-> st, ok |-> FALSE, msg |-> "Giveaway has ended"]
    ELSE
      LET d == st.data
          d0 == IF Has(d.participants, id) THEN d
                ELSE [d EXCEPT !.participants = Put(d.participants, id, <<>>)]
          bucket == Get(d0.participants, id)
          bucket1 == Put(bucket, u, [user_id |-> u, is_active |-> TRUE])
          g1 == [get_giveaway(d0, id) EXCEPT !.participants_count = Len(bucket1)]
          d1 == [d0 EXCEPT !.participants = Put(d0.participants, id, bucket1),
                           !.giveaways = Put(d0.giveaways, id, g1)]
          st1 == update_user_stats([st EXCEPT !.data = d1], u, "total_participations")
      IN  [st |-> auto_save_check(st1), ok |-> TRUE, msg |-> "Successfully joined giveaway"]

\* add_participant(giveaway_id, user_id, user_data): [st, ok, msg]
add_participant(st, id, u, now) ==
    IF ~HasGiveaway(st.data, id)
    THEN [st |-> st, ok |-> FALSE, msg |-> "Giveaway not found"]
    ELSE IF get_giveaway(st.data, id).status # "active"
    THEN [st |-> st, ok |-> FALSE, msg |-> "Giveaway is not active"]
    ELSE IF get_giveaway(st.data, id).end_time <= now
    THEN [st |-> st, ok |-> FALSE, msg |-> "Giveaway has ended"]
    ELSE
      LET d == st.data
          d0 == IF Has(d.participants, id) THEN d
                ELSE [d EXCEPT !.participants = Put(d.participants, id, <<>>)]
          bucket == Get(d0.participants, id)
      IN  IF ~Has(bucket, u)
          THEN LET bucket1 == Put(bucket, u, [user_id |-> u, is_active |-> TRUE])
                   g1 == [get_giveaway(d0, id) EXCEPT !.participants_count = Len(bucket1)]
                   d1 == [d0 EXCEPT !.participants = Put(d0.participants, id, bucket1),
                                    !.giveaways = Put(d0.giveaways, id, g1)]
                   st1 == update_user_stats([st EXCEPT !.data = d1], u, "total_participations")
               IN  [st |-> auto_save_check(st1), ok |-> TRUE,
                    msg |-> "Successfully joined giveaway"]
          ELSE [st |-> [st EXCEPT !.data = d0], ok |-> FALSE,
                msg |-> "Already joined this giveaway"]

\* remove_participant(giveaway_id, user_id): [st, ok].  The record is archived
\* under removed_participants with is_active False and deleted from the bucket;
\* the status of the giveaway is not consulted.
remove_participant(st, id, u) ==
    LET d == st.data IN
    IF Has(d.participants, id) /\ Has(Get(d.participants, id), u)
    THEN LET bucket == Get(d.participants, id)
             archived == [Get(bucket, u) EXCEPT !.is_active = FALSE]
             oldArch == IF Has(d.removed_participants, id)
                        THEN Get(d.removed_participants, id) ELSE <<>>
             bucket1 == Del(bucket, u)
             gs1 == IF Has(d.giveaways, id)
                    THEN Put(d.giveaways, id,
                             [Get(d.giveaways, id) EXCEPT !.participants_count = Len(bucket1)])
                    ELSE d.giveaways
             d1 == [d EXCEPT !.removed_participants =
                                 Put(d.removed_participants, id, Put(oldArch, u, archived)),
                             !.participants = Put(d.participants, id, bucket1),
                             !.giveaways = gs1]
             st1 == update_user_stats([st EXCEPT !.data = d1], u, "total_removals")
         IN  [st |-> auto_save_check(st1), ok |-> TRUE]
    ELSE [st |-> st, ok |-> FALSE]

\* add_winner(giveaway_id, user_id): [st, ok].  Neither the status of the
\* giveaway nor the participant bucket is consulted.
WinnerIds(ws) == {ws[i].user_id : i \in 1..Len(ws)}
WinnersOf(data, id) == IF Has(data.winners, id) THEN Get(data.winners, id) ELSE <<>>
\* add_winner without the "already a winner" loop of lines 445-448
add_winner_again(st, id, u) ==
    LET d == st.data
        d0 == IF Has(d.winners, id) THEN d ELSE [d EXCEPT !.winners = Put(d.winners, id, <<>>)]
        existing == Get(d0.winners, id)
        ws1 == Append(existing, [user_id |-> u, prize_claimed |-> FALSE])
        gs1 == IF Has(d0.giveaways, id)
               THEN Put(d0.giveaways, id,
                        [Get(d0.giveaways, id) EXCEPT !.winners_selected = TRUE])
               ELSE d0.giveaways
        d1 == [d0 EXCEPT !.winners = Put(d0.winners, id, ws1), !.giveaways = gs1]
        st1 == update_user_stats([st EXCEPT !.data = d1], u, "total_wins")
    IN  [st |-> auto_save_check(st1), ok |-> TRUE]

add_winner(st, id, u) ==
    LET d == st.data
        d0 == IF Has(d.winners, id) THEN d ELSE [d EXCEPT !.winners = Put(d.winners, id, <<>>)]
        existing == Get(d0.winners, id)
    IN  IF u \in WinnerIds(existing)
        THEN [st |-> [st EXCEPT !.data = d0], ok |-> FALSE]
        ELSE LET ws1 == Append(existing, [user_id |-> u, prize_claimed |-> FALSE])
                 gs1 == IF Has(d0.giveaways, id)
                        THEN Put(d0.giveaways, id,
                                 [Get(d0.giveaways, id) EXCEPT !.winners_selected = TRUE])
                        ELSE d0.giveaways
                 d1 == [d0 EXCEPT !.winners = Put(d0.winners, id, ws1), !.giveaways = gs1]
                 st1 == update_user_stats([st EXCEPT !.data = d1], u, "total_wins")
             IN  [st |-> auto_save_check(st1), ok |-> TRUE]

\* Helpers.select_winners(participants, winner_count): every list the call
\* can return.  random.sample draws winner_count distinct keys in any order.
Samples(S, n) == {w \in [1..n -> S] : \A i, j \in 1..n : i # j => w[i] # w[j]}
\* select_winners drawing with replacement (random.choices for random.sample)
select_winners_with_replacement(participants, winner_count) ==
    IF Len(participants) = 0 \/ winner_count <= 0 THEN {<<>>}
    ELSE IF Len(participants) <= winner_count THEN {KeyList(participants)}
    ELSE [1..winner_count -> Keys(participants)]

select_winners(participants, winner_count) ==
    IF Len(participants) = 0 \/ winner_count <= 0 THEN {<<>>}
    ELSE IF Len(participants) <= winner_count THEN {KeyList(participants)}
    ELSE Samples(Keys(participants), winner_count)

\* the loop "for winner_id in winners: await self.db.add_winner(...)"
RECURSIVE StoreWinners(_, _, _)
StoreWinners(st, id, ws) ==
    IF ws = <<>> THEN st ELSE StoreWinners(add_winner(st, id, Head(ws)).st, id, Tail(ws))

\* end_giveaway without the "already ended" check of lines 97-100
end_giveaway_unchecked(st, id, now) ==
    IF ~HasGiveaway(st.data, id)
    THEN {[st |-> st, res |-> "not_found", winners |-> <<>>, np |-> 0, rec |-> 0]}
    ELSE
      LET giveaway == get_giveaway(st.data, id)
          st1 == update_giveaway(st, id, [status |-> "ended", ended_at |-> now,
                                          winners_selected |-> TRUE]).st
          participants == get_participants(st1.data, id)
      IN  IF Len(participants) = 0
          THEN {[st |-> st1, res |-> "no_participants", winners |-> <<>>, np |-> 0,
                 rec |-> giveaway.created_at]}
          ELSE {[st |-> StoreWinners(st1, id, w), res |-> "winners", winners |-> w,
                 np |-> Len(participants), rec |-> giveaway.created_at]
                : w \in select_winners(participants, giveaway.winner_count)}

\* GiveawayScheduler.end_giveaway up to its first suspension (lines 92-138):
\* the set of results [st, res, winners, np, rec].  res is "not_found",
\* "already_ended" (both return at once), "no_participants" (continues in
\* announce_no_winners) or "winners" (continues in announce_winners).
\* rec is the created_at of the record that was ended.
end_giveaway(st, id, now) ==
    IF ~HasGiveaway(st.data, id)
    THEN {[st |-> st, res |-> "not_found", winners |-> <<>>, np |-> 0, rec |-> 0]}
    ELSE
      LET giveaway == get_giveaway(st.data, id) IN
      IF giveaway.status = "ended"
      THEN {[st |-> st, res |-> "already_ended", winners |-> <<>>, np |-> 0,
             rec |-> giveaway.created_at]}
      ELSE
        LET st1 == update_giveaway(st, id, [status |-> "ended", ended_at |-> now,
                                            winners_selected |-> TRUE]).st
            participants == get_participants(st1.data, id)
        IN  IF Len(participants) = 0
            THEN {[st |-> st1, res |-> "no_participants", winners |-> <<>>, np |-> 0,
                   rec |-> giveaway.created_at]}
            ELSE {[st |-> StoreWinners(st1, id, w), res |-> "winners", winners |-> w,
                   np |-> Len(participants), rec |-> giveaway.created_at]
                  : w \in select_winners(participants, giveaway.winner_count)}


\* _load_data / _ensure_data_structure: the store a process constructs from
\* the file; every giveaway gets a participant bucket if it has none.
RECURSIVE EnsureBuckets(_, _)
EnsureBuckets(parts, ids) ==
    IF ids = <<>> THEN parts
    ELSE EnsureBuckets(IF Has(parts, Head(ids)) THEN parts ELSE Put(parts, Head(ids), <<>>),
                       Tail(ids))
load_data(f) == [f EXCEPT !.participants = EnsureBuckets(f.participants, KeyList(f.giveaways))]

\* ---- state ----------------------------------------------------------------
VARIABLES
    data,               \* JSONDatabase.data
    file,               \* the JSON file on disk
    auto_save_counter,  \* JSONDatabase.auto_save_counter
    now,                \* the clock, in seconds
    phase,              \* "loaded": store constructed, handlers registered;
                        \* "running": GiveawayScheduler.start has run
    jobs,               \* the DateTrigger jobs of the started scheduler
    task,               \* the position of each coroutine running end_giveaway
    sent,               \* what the chats have received, per giveaway record
    last,               \* the last reply to a join attempt that was observed ("none": no reply yet)
    restarts,           \* number of process restarts so far
    edits,              \* number of admin edits (removals, manual winners) so far
    warned,             \* the records for which this process has logged "already ended"
    probe,              \* a call of one store or helper function on its own:
                        \* its arguments and, once made, its result
    gate                \* the join paths: data["banned_users"], data["user_cooldowns"]
                        \* and the position of each user's /part or callback handler

vars == <<data, file, auto_save_counter, now, phase, jobs, task, sent, last, restarts, edits,
          warned, probe, gate>>

\* The coroutines that can be inside end_giveaway: the DateTrigger job and the
\* interval job of the started scheduler; the /end command or giveaway_end_
\* callback and the creation wizard, each on a GiveawayScheduler of its own.
Tasks == {"timer", "sweep", "admin", "wizard"}
Idle == [pc |-> "idle", gid |-> NoId, rec |-> 0, winners |-> <<>>, np |-> 0, queue |-> <<>>]

Store == [data |-> data, file |-> file, ctr |-> auto_save_counter]
Commit(st) == /\ data' = st.data
              /\ file' = st.file
              /\ auto_save_counter' = st.ctr

NoSent == [ends |-> 0, ann |-> 0, dm |-> 0]
NoProbe == [fn |-> "none"]

\* data["user_cooldowns"]: one entry at most per key "<user_id>_<action>",
\* holding its expires_at
CooldownActions == {"participate", "check_subscription"}
\* a /part or callback handler of a user: where it is and the giveaway it is
\* about
JoinIdle == [pc |-> "idle", gid |-> NoId]
NoGate == [banned |-> <<>>, user_cooldowns |-> <<>>,
           join |-> [u \in Users |-> JoinIdle]]

\* A file left by an earlier run: empty, or holding one giveaway created at
\* second 0 and saved by create_giveaway.
InitFiles ==
    {DefaultData} \cup
    {create_giveaway([data |-> DefaultData, file |-> DefaultData, ctr |-> 0],
                     <<0, 1>>, 0, e, c).file : e \in 1..MaxTime, c \in 1..MaxWinnerCount}

Init ==
    /\ file \in InitFiles
    /\ data = load_data(file)
    /\ auto_save_counter = 0
    /\ now = 0
    /\ phase = "loaded"
    /\ jobs = {}
    /\ task = [t \in Tasks |-> Idle]
    /\ sent = [c \in Serials |-> NoSent]
    /\ last = "none"
    /\ restarts = 0
    /\ edits = 0
    /\ warned = {}
    /\ probe = NoProbe
    /\ gate = NoGate

\* ---- the end-of-giveaway transition as a coroutine -------------------------
Returned == {"not_found", "already_ended", "done"}
Flipped == {"no_participants", "winners"}

\* the coroutine after the block of end_giveaway that produced outcome o
TaskAfter(o, id, queue) ==
    IF o.res \in Returned THEN Idle
    ELSE [pc |-> IF o.res = "winners" THEN "announce_winners" ELSE "announce_no_winners",
          gid |-> id, rec |-> o.rec, winners |-> o.winners, np |-> o.np, queue |-> queue]

\* What the outside sees, as a value g = [sent, warned].  Noted(g, o) adds the
\* trace of one call of end_giveaway with outcome o: a transition executed, or
\* the "already ended" warning of line 99.
Seen == [sent |-> sent, warned |-> warned]
Noted(g, o) ==
    IF o.res \in Flipped THEN [g EXCEPT !.sent[o.rec].ends = g.sent[o.rec].ends + 1]
    ELSE IF o.res = "already_ended" THEN [g EXCEPT !.warned = g.warned \cup {o.rec}]
    ELSE g
Show(g) == /\ sent' = g.sent
           /\ warned' = g.warned

\* a handler or job calls end_giveaway(id) on store value st
CallEnd(t, id, st) ==
    \E o \in end_giveaway(st, id, now) :
        /\ Commit(o.st)
        /\ task' = [task EXCEPT ![t] = TaskAfter(o, id, <<>>)]
        /\ Show(Noted(Seen, o))

\* check_expired_giveaways, the loop over the list fetched when the sweep
\* began: skip an ID that has a job, await end_giveaway for the others.  The
\* loop runs on until an end_giveaway suspends or the list is exhausted.
JobIds(js) == {j.id : j \in js}
RECURSIVE check_expired_loop(_, _, _, _)
check_expired_loop(st, js, queue, g) ==
    IF queue = <<>>
    THEN {[o |-> [st |-> st, res |-> "done", winners |-> <<>>, np |-> 0, rec |-> 0],
           id |-> NoId, queue |-> <<>>, g |-> g]}
    ELSE LET id == Head(queue) IN
         IF id \in JobIds(js) THEN check_expired_loop(st, js, Tail(queue), g)
         ELSE UNION {IF o.res \in Returned
                     THEN check_expired_loop(o.st, js, Tail(queue), Noted(g, o))
                     ELSE {[o |-> o, id |-> id, queue |-> Tail(queue), g |-> Noted(g, o)]}
                     : o \in end_giveaway(st, id, now)}

SweepOn(st, queue, g) ==
    \E r \in check_expired_loop(st, jobs, queue, g) :
        /\ Commit(r.o.st)
        /\ task' = [task EXCEPT !["sweep"] = TaskAfter(r.o, r.id, r.queue)]
        /\ Show(r.g)

\* end_giveaway has returned to its caller, with store value st and g seen
Return(t, st, g) ==
    IF t = "sweep"
    THEN SweepOn(st, task[t].queue, g)
    ELSE /\ Commit(st)
         /\ task' = [task EXCEPT ![t] = Idle]
         /\ Show(g)

\* ---- actions ----------------------------------------------------------------
\* a second passes
Tick ==
    /\ now < MaxTime
    /\ now' = now + 1
    /\ UNCHANGED <<probe, gate, data, file, auto_save_counter, phase, jobs, task, sent, last,
                   restarts, edits, warned>>

\* The process stops (crash, kill or SmashGiveawayBot.stop, none of which
\* writes the file) and is started again: JSONDatabase.__init__ loads the file.
Restart ==
    /\ restarts < MaxRestarts
    /\ restarts' = restarts + 1
    /\ data' = load_data(file)
    /\ auto_save_counter' = 0
    /\ phase' = "loaded"
    /\ jobs' = {}
    /\ task' = [t \in Tasks |-> Idle]
    /\ warned' = {}
    /\ UNCHANGED <<probe, gate, file, now, sent, last, edits>>

\* GiveawayScheduler.start: one schedule_giveaway_end per giveaway that
\* get_active_giveaways returns (each has end_time > now, so each gets a job),
\* then the interval job of check_expired_giveaways is added.
start ==
    /\ phase = "loaded"
    /\ phase' = "running"
    /\ jobs' = {[id |-> id, run_date |-> get_giveaway(data, id).end_time] :
                  id \in Range(get_active_giveaways(data, now))}
    /\ UNCHANGED <<probe, gate, data, file, auto_save_counter, now, task, sent, last,
                   restarts, edits, warned>>

\* GiveawayHandler.create_giveaway (confirm_create): generate an ID, store the
\* record, then schedule_giveaway_end on a new GiveawayScheduler, which ends
\* the giveaway at once when end_time <= now and otherwise adds a job to a
\* scheduler that is never started.  The wizard has accepted the winner
\* count, a start time and a later end time.
CreateGiveaway ==
    /\ data.giveaway_counters < MaxCreates
    /\ task["wizard"].pc = "idle"
    /\ \E id \in generate_giveaway_id(now), e \in 1..MaxTime, s \in 0..(MaxTime - 1),
          c \in 1..MaxWinnerCount :
         LET st1 == create_giveaway(Store, id, s, e, c) IN
         /\ s < e
         /\ IF e <= now
            THEN CallEnd("wizard", id, st1)
            ELSE /\ Commit(st1)
                 /\ UNCHANGED <<task, sent, warned>>
    /\ UNCHANGED <<probe, gate, now, phase, jobs, last, restarts, edits>>

\* complete_participation (/part and the verify_sub_ callback).  It runs after
\* validate_participation, whose channel check suspends, so the store may have
\* changed since the gate was passed: add_participant, and on success
\* set_cooldown and the user_joined log entry.
Join(id, u) ==
    LET r == add_participant(Store, id, u, now) IN
    /\ Commit(IF r.ok THEN add_log(set_cooldown(r.st), "user_joined", u, id, <<u>>) ELSE r.st)
    /\ UNCHANGED <<probe, gate, now, phase, jobs, task, sent, restarts, edits, warned>>

\* the handler, its reply to the user left unobserved
Participate(id, u) ==
    /\ Join(id, u)
    /\ UNCHANGED last

\* the handler, its reply to the user observed
ParticipateReply(id, u) ==
    /\ Join(id, u)
    /\ last' = add_participant(Store, id, u, now).msg

\* AdminCommands.remove_participant (/rmpart) and the remove_part_ callback:
\* remove_participant, and on success the participant_removed log entry.
RemoveParticipant(id, u) ==
    LET r == remove_participant(Store, id, u) IN
    /\ r.ok
    /\ edits < MaxEdits
    /\ edits' = edits + 1
    /\ Commit(add_log(r.st, "participant_removed", 0, id, <<u>>))
    /\ UNCHANGED <<probe, gate, now, phase, jobs, task, sent, last, restarts, warned>>

\* AdminCommands.manual_winner (/cwinner): the giveaway must exist and the
\* user be a participant; then add_winner, whose result is ignored, and the
\* manual_winner_set log entry.
ManualWinner(id, u) ==
    /\ HasGiveaway(data, id)
    /\ is_participant(data, id, u)
    /\ edits < MaxEdits
    /\ edits' = edits + 1
    /\ Commit(add_log(add_winner(Store, id, u).st, "manual_winner_set", 0, id, <<u>>))
    /\ UNCHANGED <<probe, gate, now, phase, jobs, task, sent, last, restarts, warned>>

\* AdminCommands.end_giveaway (/end) and the giveaway_end_ callback: for a
\* giveaway that exists, end_giveaway on a new GiveawayScheduler.
AdminEnd(id) ==
    /\ HasGiveaway(data, id)
    /\ task["admin"].pc = "idle"
    /\ CallEnd("admin", id, Store)
    /\ UNCHANGED <<probe, gate, now, phase, jobs, last, restarts, edits>>

\* The DateTrigger job of a giveaway runs: the scheduler drops the job, which
\* has no further run time, and starts end_giveaway(id).
TimerFire(j) ==
    /\ phase = "running"
    /\ j \in jobs
    /\ j.run_date <= now
    /\ task["timer"].pc = "idle"
    /\ jobs' = jobs \ {j}
    /\ CallEnd("timer", j.id, Store)
    /\ UNCHANGED <<probe, gate, now, phase, last, restarts, edits>>

\* The scheduler comes to the due job later than its misfire grace time (the
\* loop was blocked, the host suspended): the job is dropped unrun.
TimerMisfire(j) ==
    /\ phase = "running"
    /\ j \in jobs
    /\ j.run_date <= now
    /\ jobs' = jobs \ {j}
    /\ UNCHANGED <<probe, gate, data, file, auto_save_counter, now, phase, task, sent, last,
                   restarts, edits, warned>>

\* check_expired_giveaways, from its start: fetch the expired list, enter the loop.
check_expired_giveaways ==
    /\ phase = "running"
    /\ task["sweep"].pc = "idle"
    /\ SweepOn(Store, get_expired_giveaways(data, now), Seen)
    /\ UNCHANGED <<probe, gate, now, phase, jobs, last, restarts, edits>>

\* announce_winners: one announcement batch to the broadcast chats
announce_winners(t) ==
    /\ task[t].pc = "announce_winners"
    /\ sent' = [sent EXCEPT ![task[t].rec].ann = sent[task[t].rec].ann + 1]
    /\ task' = [task EXCEPT ![t].pc = "notify_winners"]
    /\ UNCHANGED <<probe, gate, data, file, auto_save_counter, now, phase, jobs, last,
                   restarts, edits, warned>>

\* notify_winners (one DM attempt per winner, then the report to the owner;
\* every failure is caught inside), then the giveaway_ended log entry, and
\* end_giveaway returns.
notify_winners(t) ==
    /\ task[t].pc = "notify_winners"
    /\ Return(t, add_log(Store, "giveaway_ended", 0, task[t].gid,
                         <<Len(task[t].winners), task[t].np>>),
              [Seen EXCEPT !.sent[task[t].rec].dm = sent[task[t].rec].dm + 1])
    /\ UNCHANGED <<probe, gate, now, phase, jobs, last, restarts, edits>>

\* announce_no_winners: one announcement batch, then the message to the owner,
\* which is sent outside any try: when it fails the error leaves end_giveaway
\* (and stops the loop of check_expired_giveaways, which catches it).
NoWinnersSent(t, ownerSendOk) ==
    LET g == [Seen EXCEPT !.sent[task[t].rec].ann = sent[task[t].rec].ann + 1] IN
    /\ task[t].pc = "announce_no_winners"
    /\ IF ownerSendOk
       THEN Return(t, Store, g)
       ELSE /\ task' = [task EXCEPT ![t] = Idle]
            /\ Show(g)
            /\ UNCHANGED <<data, file, auto_save_counter>>
    /\ UNCHANGED <<gate, now, phase, jobs, last, restarts, edits>>

announce_no_winners(t) ==
    /\ \E ownerSendOk \in BOOLEAN : NoWinnersSent(t, ownerSendOk)
    /\ UNCHANGED probe

Handlers ==
    \/ CreateGiveaway
    \/ \E id \in GiveawayIds, u \in Users : Participate(id, u)
    \/ \E id \in GiveawayIds, u \in Users : RemoveParticipant(id, u)
    \/ \E id \in GiveawayIds, u \in Users : ManualWinner(id, u)
    \/ \E id \in GiveawayIds : AdminEnd(id)

SchedulerJobs ==
    \/ start
    \/ \E j \in jobs : TimerFire(j)
    \/ \E j \in jobs : TimerMisfire(j)
    \/ check_expired_giveaways

Continue ==
    \/ \E t \in Tasks : announce_winners(t)
    \/ \E t \in Tasks : notify_winners(t)
    \/ \E t \in Tasks : announce_no_winners(t)

\* one process run: no restart
RunNext == Tick \/ Handlers \/ SchedulerJobs \/ Continue
Next == RunNext \/ Restart

\* one process run with the replies to /part observed
HandlersReply ==
    \/ CreateGiveaway
    \/ \E id \in GiveawayIds, u \in Users : ParticipateReply(id, u)
    \/ \E id \in GiveawayIds, u \in Users : RemoveParticipant(id, u)
    \/ \E id \in GiveawayIds, u \in Users : ManualWinner(id, u)
    \/ \E id \in GiveawayIds : AdminEnd(id)
ReplyNext == Tick \/ HandlersReply \/ SchedulerJobs \/ Continue

Spec == Init /\ [][Next]_vars
SpecRun == Init /\ [][RunNext]_vars
SpecReply == Init /\ [][ReplyNext]_vars

\* one process run without the admin edits of participants and winners
LifecycleNext ==
    \/ Tick
    \/ CreateGiveaway
    \/ \E id \in GiveawayIds, u \in Users : Participate(id, u)
    \/ \E id \in GiveawayIds : AdminEnd(id)
    \/ SchedulerJobs
    \/ Continue

\* One process run in which the event loop and the started scheduler keep
\* working: start is called right after construction (SmashGiveawayBot.start),
\* the interval job and the due DateTrigger jobs are run, and a coroutine
\* that awaits a network call is resumed.  While any of these can change the
\* state, one of them eventually does.
Fairness == WF_vars(SchedulerJobs \/ Continue)
FairSpec == Init /\ [][LifecycleNext]_vars /\ Fairness

\* ---- the join paths ----------------------------------------------------------
\* A store value with the cooldown table: sc = [st, cd].
\* set_cooldown(user_id, action, seconds) on the table: the entry of the key
\* is written with expires_at = now + seconds; the store ticks.
set_cooldown_entry(sc, u, action, seconds, t) ==
    [st |-> set_cooldown(sc.st), cd |-> Put(sc.cd, <<u, action>>, t + seconds)]

\* check_cooldown that never removes an entry
check_cooldown_keep(sc, u, action, t) ==
    IF Has(sc.cd, <<u, action>>)
    THEN [st |-> sc.st, cd |-> sc.cd, ok |-> ~(t < Get(sc.cd, <<u, action>>))]
    ELSE [st |-> sc.st, cd |-> sc.cd, ok |-> TRUE]

\* check_cooldown(user_id, action): [st, cd, ok].  False while now <
\* expires_at; otherwise an entry that exists is deleted and the store ticks.
check_cooldown(sc, u, action, t) ==
    IF Has(sc.cd, <<u, action>>)
    THEN IF t < Get(sc.cd, <<u, action>>)
         THEN [st |-> sc.st, cd |-> sc.cd, ok |-> FALSE]
         ELSE [st |-> auto_save_check(sc.st), cd |-> Del(sc.cd, <<u, action>>), ok |-> TRUE]
    ELSE [st |-> sc.st, cd |-> sc.cd, ok |-> TRUE]

\* is_banned(user_id): the list data["banned_users"] holds a record of the
\* user that is active
is_banned(banned, u) ==
    \E i \in 1..Len(banned) : banned[i].user_id = u /\ banned[i].active

\* ban_user that appends a record without looking for an active one
ban_user_again(st, banned, u) ==
    [st |-> add_log(save(st), "user_banned", 0, NoId, <<u>>),
     banned |-> Append(banned, [user_id |-> u, active |-> TRUE]), ok |-> TRUE]

\* ban_user(user_id, reason, banned_by): [st, banned, ok].  With an active
\* record of the user it returns False; otherwise a record is appended, the
\* store is saved and the ban is logged.
ban_user(st, banned, u) ==
    IF is_banned(banned, u) THEN [st |-> st, banned |-> banned, ok |-> FALSE]
    ELSE [st |-> add_log(save(st), "user_banned", 0, NoId, <<u>>),
          banned |-> Append(banned, [user_id |-> u, active |-> TRUE]), ok |-> TRUE]

\* unban_user(user_id, unbanned_by): [st, banned, ok].  The first active
\* record of the user is marked inactive and stays in the list; the store is
\* saved and the unban is logged.  Without such a record it returns False.
unban_user(st, banned, u) ==
    IF is_banned(banned, u)
    THEN LET i == CHOOSE i \in 1..Len(banned) :
                    /\ banned[i].user_id = u /\ banned[i].active
                    /\ \A j \in 1..(i - 1) : ~(banned[j].user_id = u /\ banned[j].active)
         IN  [st |-> add_log(save(st), "user_unbanned", 0, NoId, <<u>>),
              banned |-> [banned EXCEPT ![i].active = FALSE], ok |-> TRUE]
    ELSE [st |-> st, banned |-> banned, ok |-> FALSE]

\* UserValidator.validate_participation up to its call of
\* ChannelChecker.check_subscription: [st, cd, res], res the rejection or
\* "oracle" when the subscription check is reached.
validate_participation(sc, banned, u, id, t) ==
    IF is_banned(banned, u) THEN [st |-> sc.st, cd |-> sc.cd, res |-> "banned"]
    ELSE IF ~HasGiveaway(sc.st.data, id)
    THEN [st |-> sc.st, cd |-> sc.cd, res |-> "No active giveaway found."]
    ELSE IF get_giveaway(sc.st.data, id).status # "active"
    THEN [st |-> sc.st, cd |-> sc.cd, res |-> "This giveaway is not active."]
    ELSE IF is_participant(sc.st.data, id, u)
    THEN [st |-> sc.st, cd |-> sc.cd, res |-> "You have already joined this giveaway."]
    ELSE LET c == check_cooldown(sc, u, "participate", t) IN
         [st |-> c.st, cd |-> c.cd, res |-> IF c.ok THEN "oracle" ELSE "cooldown"]

StoreGate == [st |-> Store, cd |-> gate.user_cooldowns]
\* a handler of user u stops with reply r
Answer(sc, u, r) ==
    /\ Commit(sc.st)
    /\ gate' = [gate EXCEPT !.user_cooldowns = sc.cd, !.join[u] = JoinIdle]
    /\ last' = r
\* a handler of user u awaits the subscription check at pc, for giveaway id
Await(sc, u, pc, id) ==
    /\ Commit(sc.st)
    /\ gate' = [gate EXCEPT !.user_cooldowns = sc.cd, !.join[u] = [pc |-> pc, gid |-> id]]
    /\ UNCHANGED last

JoinRest == <<now, phase, jobs, task, sent, restarts, edits, warned, probe>>

\* UserCommands.participate_command (/part in a private chat) up to the
\* subscription check inside validate_participation
participate_command(u) ==
    /\ gate.join[u].pc = "idle"
    /\ IF is_banned(gate.banned, u) THEN Answer(StoreGate, u, "banned")
       ELSE LET c == check_cooldown(StoreGate, u, "participate", now)
                active == get_active_giveaways(c.st.data, now)
            IN  IF ~c.ok THEN Answer(c, u, "cooldown")
                ELSE IF active = <<>> THEN Answer(c, u, "No active giveaway")
                ELSE LET v == validate_participation(c, gate.banned, u, Head(active), now) IN
                     IF v.res = "oracle" THEN Await(v, u, "part_oracle", Head(active))
                     ELSE Answer(v, u, v.res)
    /\ UNCHANGED JoinRest

\* complete_participation, and lines 179-223 of handle_verify_subscription:
\* add_participant; on success the participate cooldown and the log entry
complete_participation(u, id) ==
    LET r == add_participant(Store, id, u, now) IN
    IF r.ok
    THEN LET c == set_cooldown_entry([st |-> r.st, cd |-> gate.user_cooldowns], u,
                                     "participate", COOLDOWN_PARTICIPATE, now)
         IN  Answer([st |-> add_log(c.st, "user_joined", u, id, <<u>>), cd |-> c.cd],
                    u, r.msg)
    ELSE Answer([st |-> r.st, cd |-> gate.user_cooldowns], u, r.msg)

\* participate_command from the answer of the subscription check on
part_subscription(u, subscribed) ==
    /\ gate.join[u].pc = "part_oracle"
    /\ IF subscribed THEN complete_participation(u, gate.join[u].gid)
       ELSE Answer(StoreGate, u, "subscription_required")
    /\ UNCHANGED JoinRest

\* handle_callback and handle_verify_subscription for the button
\* verify_sub_<id> in a private chat, up to its own subscription check
VerifyFrom(u, id) ==
    LET c == check_cooldown(StoreGate, u, "check_subscription", now) IN
    IF ~c.ok THEN Answer(c, u, "cooldown_check")
    ELSE Await(set_cooldown_entry(c, u, "check_subscription", COOLDOWN_CHECK, now),
               u, "verify_oracle", id)
handle_verify_subscription(u, id) ==
    /\ gate.join[u].pc = "idle"
    /\ IF is_banned(gate.banned, u) THEN Answer(StoreGate, u, "banned")
       ELSE VerifyFrom(u, id)
    /\ UNCHANGED JoinRest

\* handle_callback and handle_check_subscription: the first active giveaway
handle_check_subscription(u) ==
    /\ gate.join[u].pc = "idle"
    /\ IF is_banned(gate.banned, u) THEN Answer(StoreGate, u, "banned")
       ELSE IF get_active_giveaways(data, now) = <<>>
       THEN Answer(StoreGate, u, "No active giveaway")
       ELSE VerifyFrom(u, Head(get_active_giveaways(data, now)))
    /\ UNCHANGED JoinRest

\* handle_verify_subscription from the answer of its own subscription check
\* to the one inside validate_participation
verify_subscription(u, subscribed) ==
    /\ gate.join[u].pc = "verify_oracle"
    /\ IF ~subscribed THEN Answer(StoreGate, u, "subscription_required")
       ELSE LET v == validate_participation(StoreGate, gate.banned, u, gate.join[u].gid, now)
            IN  IF v.res = "oracle"
                THEN Await(v, u, "validate_oracle", gate.join[u].gid)
                ELSE Answer(v, u, v.res)
    /\ UNCHANGED JoinRest

\* handle_verify_subscription from the return of validate_participation on,
\* which is (True, ...) when subscribed and (False, "subscription_required",
\* missing) when not: the handler stops only on a rejection with another
\* reason (line 161), so it goes on in both cases
verify_validated(u, subscribed) ==
    /\ gate.join[u].pc = "validate_oracle"
    /\ IF ~HasGiveaway(data, gate.join[u].gid)
       THEN Answer(StoreGate, u, "Giveaway not found.")
       ELSE complete_participation(u, gate.join[u].gid)
    /\ UNCHANGED JoinRest

\* AdminCommands.ban_user (/pban) for a user who is not banned: ban_user
\* appends the record, saves the store and logs
BanUser(u) ==
    /\ ~is_banned(gate.banned, u)
    /\ edits < MaxEdits
    /\ edits' = edits + 1
    /\ gate' = [gate EXCEPT !.banned = ban_user(Store, gate.banned, u).banned]
    /\ Commit(ban_user(Store, gate.banned, u).st)
    /\ UNCHANGED <<now, phase, jobs, task, sent, last, restarts, warned, probe>>

JoinPaths ==
    \/ \E u \in Users : participate_command(u)
    \/ \E u \in Users, subscribed \in BOOLEAN : part_subscription(u, subscribed)
    \/ \E u \in Users, id \in GiveawayIds : handle_verify_subscription(u, id)
    \/ \E u \in Users : handle_check_subscription(u)
    \/ \E u \in Users, subscribed \in BOOLEAN : verify_subscription(u, subscribed)
    \/ \E u \in Users, subscribed \in BOOLEAN : verify_validated(u, subscribed)

\* one process run of the join paths, bans, /end and what follows it
GateNext ==
    \/ Tick
    \/ JoinPaths
    \/ \E u \in Users : BanUser(u)
    \/ \E id \in GiveawayIds : AdminEnd(id)
    \/ Continue
SpecGate == Init /\ [][GateNext]_vars

\* ---- Helpers.select_winners on its own --------------------------------------
\* The participants argument is the dict get_participants returns: any dict
\* of active records keyed by distinct users of a pool; winner_count is what
\* the giveaway record holds, which no code path checks on the way to the
\* selector, so any integer from -1 up to above the size of the pool.
Pool == 1..PoolSize
ParticipantDicts ==
    UNION {{[i \in 1..n |-> [k |-> w[i], v |-> [user_id |-> w[i], is_active |-> TRUE]]]
            : w \in Samples(Pool, n)} : n \in 0..PoolSize}
WinnerCounts == (-1)..(PoolSize + 1)

InitSelect ==
    /\ file = DefaultData
    /\ data = load_data(file)
    /\ auto_save_counter = 0
    /\ now = 0
    /\ phase = "loaded"
    /\ jobs = {}
    /\ task = [t \in Tasks |-> Idle]
    /\ sent = [c \in Serials |-> NoSent]
    /\ last = "none"
    /\ restarts = 0
    /\ edits = 0
    /\ warned = {}
    /\ gate = NoGate
    /\ \E P \in ParticipantDicts, k \in WinnerCounts :
          probe = [fn |-> "select_winners", participants |-> P, winner_count |-> k,
                   done |-> FALSE, out |-> <<>>]

\* the call Helpers.select_winners(participants, winner_count)
SelectWinners ==
    /\ probe.fn = "select_winners"
    /\ ~probe.done
    /\ \E w \in select_winners(probe.participants, probe.winner_count) :
          probe' = [probe EXCEPT !.done = TRUE, !.out = w]
    /\ UNCHANGED <<data, file, auto_save_counter, now, phase, jobs, task, sent, last,
                   restarts, edits, warned, gate>>

SpecSelect == InitSelect /\ [][SelectWinners]_vars

\* ---- set_cooldown and check_cooldown on their own ----------------------------
\* Calls of set_cooldown(user, action, seconds) and check_cooldown(user,
\* action) in any order while the clock advances.  probe.set remembers per
\* key the time and the seconds of the set_cooldown whose entry has not been
\* found expired since (<<>>: none), probe.last the last check_cooldown,
\* probe.calls the number of calls made.
CooldownKeys == Users \X CooldownActions
CooldownSeconds == 0..(MaxTime + 1)
InitCooldown ==
    /\ file = DefaultData
    /\ data = load_data(file)
    /\ auto_save_counter = 0
    /\ now = 0
    /\ phase = "loaded"
    /\ jobs = {}
    /\ task = [t \in Tasks |-> Idle]
    /\ sent = [c \in Serials |-> NoSent]
    /\ last = "none"
    /\ restarts = 0
    /\ edits = 0
    /\ warned = {}
    /\ gate = NoGate
    /\ probe = [fn |-> "cooldown", set |-> [k \in CooldownKeys |-> <<>>],
                last |-> [key |-> <<>>, ok |-> TRUE], calls |-> 0]

CooldownRest == <<now, phase, jobs, task, sent, last, restarts, edits, warned>>

\* the call set_cooldown(u, action, seconds)
SetCooldown(u, action, seconds) ==
    LET c == set_cooldown_entry(StoreGate, u, action, seconds, now) IN
    /\ probe.fn = "cooldown"
    /\ probe.calls < MaxCalls
    /\ Commit(c.st)
    /\ gate' = [gate EXCEPT !.user_cooldowns = c.cd]
    /\ probe' = [probe EXCEPT !.set[<<u, action>>] = <<now, seconds>>,
                              !.calls = probe.calls + 1]
    /\ UNCHANGED CooldownRest

\* the call check_cooldown(u, action)
CheckCooldown(u, action) ==
    LET c == check_cooldown(StoreGate, u, action, now) IN
    /\ probe.fn = "cooldown"
    /\ probe.calls < MaxCalls
    /\ Commit(c.st)
    /\ gate' = [gate EXCEPT !.user_cooldowns = c.cd]
    /\ probe' = [probe EXCEPT !.last = [key |-> <<u, action>>, ok |-> c.ok],
                              !.calls = probe.calls + 1,
                              !.set[<<u, action>>] =
                                  IF c.ok THEN <<>> ELSE probe.set[<<u, action>>]]
    /\ UNCHANGED CooldownRest

CooldownNext ==
    \/ Tick
    \/ \E u \in Users, action \in CooldownActions, seconds \in CooldownSeconds :
          SetCooldown(u, action, seconds)
    \/ \E u \in Users, action \in CooldownActions : CheckCooldown(u, action)
SpecCooldown == InitCooldown /\ [][CooldownNext]_vars

\* ---- the creation wizard and create_giveaway ----------------------------------
\* The owner's session of the wizard (creation_states[user_id]) is kept in
\* probe: step 0 is no session, 4..6 the steps that ask for the winner count,
\* the start time and the end time (steps 1-3 collect the event name and the
\* prize), 7 the preview with its "Yes, Create" button.  reply is the answer to
\* the last input, ret what JSONDatabase.create_giveaway last returned,
\* scheduled and announced the IDs handed to schedule_giveaway_end and to
\* announce_giveaway.
RequiredFields ==
    {"event_name", "prize_type", "prize_details", "winner_count", "start_time", "end_time"}

\* JSONDatabase.create_giveaway(giveaway_id, giveaway_data) with its two
\* failures: [st, ok].  A missing required field raises before anything is
\* written.  The record, the bucket and the counter are written before
\* save() is awaited; when the write of the file raises (saved = FALSE) the
\* except clause returns False and they stay.
create_giveaway_call(st, id, gd, saved) ==
    IF RequiredFields \ gd.fields # {} THEN [st |-> st, ok |-> FALSE]
    ELSE LET s1 == create_giveaway(st, id, gd.start_time, gd.end_time, gd.winner_count)
         IN  IF saved THEN [st |-> s1, ok |-> TRUE]
             ELSE [st |-> [s1 EXCEPT !.file = st.file], ok |-> FALSE]

NoSession == [fn |-> "wizard", step |-> 0, winner_count |-> 0, start_time |-> 0,
              end_time |-> 0, reply |-> "none", ret |-> "none",
              scheduled |-> {}, announced |-> {}]

InitCreate ==
    /\ file \in InitFiles
    /\ data = load_data(file)
    /\ auto_save_counter = 0
    /\ now = 0
    /\ phase = "loaded"
    /\ jobs = {}
    /\ task = [t \in Tasks |-> Idle]
    /\ sent = [c \in Serials |-> NoSent]
    /\ last = "none"
    /\ restarts = 0
    /\ edits = 0
    /\ warned = {}
    /\ gate = NoGate
    /\ probe = NoSession

WizardRest == <<data, file, auto_save_counter, now, phase, jobs, task, sent, last,
                restarts, edits, warned, gate>>

\* start_creation_wizard (/sgive): a new session, whatever the old one was
start_creation_wizard ==
    /\ probe.fn = "wizard"
    /\ data.giveaway_counters < MaxCreates
    /\ probe.step # 1
    /\ probe' = [probe EXCEPT !.step = 1, !.reply = "none"]
    /\ UNCHANGED WizardRest

\* the inputs of the owner: a number for the winner count, a time for the
\* start and the end
WinnerCountInputs == {0, 1, MaxWinners, MaxWinners + 1}
TimeInputs == 0..(MaxTime + 1)

\* the checks of steps 4 and 6
AnyWinnerCount(winner_count) == TRUE
ValidWinnerCount(winner_count) == ~(winner_count <= 0) /\ ~(winner_count > MaxWinners)
ValidEndTime(end_time, start_time) == ~(end_time <= start_time)

\* handle_creation_step: steps 1-3 in one, then one step per input x
handle_creation_step(x) ==
    /\ probe.fn = "wizard"
    /\ \/ /\ probe.step = 1
          /\ x = 0
          /\ probe' = [probe EXCEPT !.step = 4, !.reply = "saved"]
       \/ /\ probe.step = 4
          /\ x \in WinnerCountInputs
          /\ probe' = IF ValidWinnerCount(x)
                      THEN [probe EXCEPT !.winner_count = x, !.step = 5, !.reply = "saved"]
                      ELSE [probe EXCEPT !.reply = "rejected"]
       \/ /\ probe.step = 5
          /\ x \in TimeInputs
          /\ probe' = IF x < now THEN [probe EXCEPT !.reply = "rejected"]
                      ELSE [probe EXCEPT !.start_time = x, !.step = 6, !.reply = "saved"]
       \/ /\ probe.step = 6
          /\ x \in TimeInputs
          /\ probe' = IF ValidEndTime(x, probe.start_time)
                      THEN [probe EXCEPT !.end_time = x, !.step = 7, !.reply = "preview"]
                      ELSE [probe EXCEPT !.reply = "rejected"]
    /\ UNCHANGED WizardRest

\* handle_confirm_create and GiveawayHandler.create_giveaway: with a preview
\* in the session, generate an ID, call JSONDatabase.create_giveaway and drop
\* what it returns, schedule_giveaway_end on a new GiveawayScheduler (which
\* ends the giveaway at once when end_time <= now), announce_giveaway, and
\* delete the session.
confirm_create(id, saved) ==
    LET gd == [fields |-> RequiredFields, winner_count |-> probe.winner_count,
               start_time |-> probe.start_time, end_time |-> probe.end_time]
        r == create_giveaway_call(Store, id, gd, saved)
    IN  /\ probe.fn = "wizard"
        /\ probe.step = 7
        /\ data.giveaway_counters < MaxCreates
        /\ task["wizard"].pc = "idle"
        /\ id \in generate_giveaway_id(now)
        /\ IF gd.end_time <= now
           THEN CallEnd("wizard", id, r.st)
           ELSE /\ Commit(r.st)
                /\ UNCHANGED <<task, sent, warned>>
        /\ probe' = [NoSession EXCEPT !.ret = IF r.ok THEN "True" ELSE "False",
                                      !.scheduled = probe.scheduled \cup {id},
                                      !.announced = probe.announced \cup {id}]
        /\ UNCHANGED <<now, phase, jobs, last, restarts, edits, gate>>

CreateNext ==
    \/ Tick
    \/ start_creation_wizard
    \/ \E x \in WinnerCountInputs \cup TimeInputs : handle_creation_step(x)
    \/ \E id \in GiveawayIds, saved \in BOOLEAN : confirm_create(id, saved)
    \/ \E t \in Tasks : announce_no_winners(t)
SpecCreate == InitCreate /\ [][CreateNext]_vars

\* ---- errors that leave end_giveaway -----------------------------------------
\* One process run of giveaways that nobody joins, with the errors observed
\* that leave end_giveaway: probe.raised holds the records whose transition
\* was left by an exception.
NoErrors == [fn |-> "errors", raised |-> {}]
InitErrors ==
    /\ file \in InitFiles
    /\ data = load_data(file)
    /\ auto_save_counter = 0
    /\ now = 0
    /\ phase = "loaded"
    /\ jobs = {}
    /\ task = [t \in Tasks |-> Idle]
    /\ sent = [c \in Serials |-> NoSent]
    /\ last = "none"
    /\ restarts = 0
    /\ edits = 0
    /\ warned = {}
    /\ gate = NoGate
    /\ probe = NoErrors

\* announce_no_winners, the failure of its message to the owner observed
announce_no_winners_raising(t) ==
    /\ probe.fn = "errors"
    /\ \E ownerSendOk \in BOOLEAN :
          /\ NoWinnersSent(t, ownerSendOk)
          /\ probe' = IF ownerSendOk THEN probe
                      ELSE [probe EXCEPT !.raised = probe.raised \cup {task[t].rec}]

ErrorsNext ==
    \/ Tick
    \/ CreateGiveaway
    \/ \E id \in GiveawayIds : AdminEnd(id)
    \/ SchedulerJobs
    \/ \E t \in Tasks : announce_no_winners_raising(t)
\* the event loop and the started scheduler keep working, as in FairSpec
FairErrors == WF_vars(SchedulerJobs \/ \E t \in Tasks : announce_no_winners_raising(t))
FairSpecErrors == InitErrors /\ [][ErrorsNext]_vars /\ FairErrors

\* ---- Giveaway.to_dict and Giveaway.from_dict --------------------------------
\* A Python value is a pair <<type, n>>: a datetime of instant n, the str that
\* is the ISO format of instant n, a member n of an Enum, the str that is the
\* value of member n, an int n, a str n that is an ID, or None.  The members
\* of PrizeType are 1 (coins) and 2 (characters), those of GiveawayStatus 3
\* (active), 4 (ended) and 5 (cancelled).
PrizeTypes == {1, 2}
GiveawayStatuses == {3, 4, 5}
None == <<"none", 0>>
IsStr(x) == x[1] \in {"iso", "name", "id"}
\* datetime.isoformat and datetime.fromisoformat
isoformat(x) == <<"iso", x[2]>>
fromisoformat(x) == <<"datetime", x[2]>>
\* Enum.value, and the call Enum(value) of a class with the given members
EnumValue(x) == <<"name", x[2]>>
EnumOf(members, x) == <<"enum", x[2]>>
EnumKnows(members, x) == x[1] = "name" /\ x[2] \in members

\* the fields of the dataclass (event_name, prize_details, participants_count,
\* message_id and chat_id are carried like winner_count and left out)
GiveawayFields ==
    {"giveaway_id", "prize_type", "winner_count", "start_time", "end_time", "status",
     "created_at"}
\* the fields without a default value
GiveawayRequired == GiveawayFields \ {"status", "created_at"}

\* Giveaway.__post_init__ on the fields given (now: the clock)
post_init(g, t) ==
    [g EXCEPT !.created_at = IF @ = None THEN <<"datetime", t>> ELSE @,
              !.start_time = IF IsStr(@) THEN fromisoformat(@) ELSE @,
              !.end_time = IF IsStr(@) THEN fromisoformat(@) ELSE @,
              !.status = IF IsStr(@) THEN EnumOf(GiveawayStatuses, @) ELSE @,
              !.prize_type = IF IsStr(@) THEN EnumOf(PrizeTypes, @) ELSE @]

\* Giveaway.to_dict: asdict(self), every field of the dataclass with the
\* giveaway_id among them; datetimes become ISO strings, Enum members values
to_dict(g) ==
    [f \in DOMAIN g |-> IF g[f][1] = "datetime" THEN isoformat(g[f])
                        ELSE IF g[f][1] = "enum" THEN EnumValue(g[f])
                        ELSE g[f]]

\* the call cls(giveaway_id=giveaway_id, **data): a keyword given twice, a
\* keyword that is no field and a missing field without default are TypeErrors
CallRaises(d) ==
    \/ "giveaway_id" \in DOMAIN d
    \/ ~(DOMAIN d \subseteq GiveawayFields)
    \/ ~(GiveawayRequired \ {"giveaway_id"} \subseteq DOMAIN d)

\* Giveaway.from_dict(giveaway_id, data): [ok, g], ok FALSE when it raises
from_dict(giveaway_id, d, t) ==
    LET bad(f, members) == f \in DOMAIN d /\ IsStr(d[f]) /\ ~EnumKnows(members, d[f])
        d1 == [f \in DOMAIN d |->
                 IF f \in {"prize_type", "status"} /\ IsStr(d[f])
                 THEN EnumOf(IF f = "status" THEN GiveawayStatuses ELSE PrizeTypes, d[f])
                 ELSE d[f]]
        given == [f \in GiveawayFields |->
                    IF f = "giveaway_id" THEN giveaway_id
                    ELSE IF f \in DOMAIN d1 THEN d1[f]
                    ELSE IF f = "status" THEN <<"enum", 3>>
                    ELSE None]
    IN  IF bad("prize_type", PrizeTypes) \/ bad("status", GiveawayStatuses) \/ CallRaises(d1)
        THEN [ok |-> FALSE, g |-> given]
        ELSE [ok |-> TRUE, g |-> post_init(given, t)]

\* every Giveaway value: what the constructor leaves after __post_init__
Giveaways ==
    [giveaway_id : {<<"id", i>> : i \in Serials},
     prize_type : {<<"enum", k>> : k \in PrizeTypes},
     winner_count : {<<"int", c>> : c \in 1..MaxWinnerCount},
     start_time : {<<"datetime", t>> : t \in Times},
     end_time : {<<"datetime", t>> : t \in Times},
     status : {<<"enum", k>> : k \in GiveawayStatuses},
     created_at : {<<"datetime", t>> : t \in Times}]

InitRoundTrip ==
    /\ file = DefaultData
    /\ data = load_data(file)
    /\ auto_save_counter = 0
    /\ now = 0
    /\ phase = "loaded"
    /\ jobs = {}
    /\ task = [t \in Tasks |-> Idle]
    /\ sent = [c \in Serials |-> NoSent]
    /\ last = "none"
    /\ restarts = 0
    /\ edits = 0
    /\ warned = {}
    /\ gate = NoGate
    /\ \E g \in Giveaways :
          probe = [fn |-> "round_trip", g |-> g, done |-> FALSE, ok |-> FALSE, out |-> g]

\* the call Giveaway.from_dict(g.giveaway_id, g.to_dict())
RoundTrip ==
    /\ probe.fn = "round_trip"
    /\ ~probe.done
    /\ LET r == from_dict(probe.g.giveaway_id, to_dict(probe.g), now) IN
       probe' = [probe EXCEPT !.done = TRUE, !.ok = r.ok, !.out = r.g]
    /\ UNCHANGED <<data, file, auto_save_counter, now, phase, jobs, task, sent, last,
                   restarts, edits, warned, gate>>

SpecRoundTrip == InitRoundTrip /\ [][RoundTrip]_vars

\* ---- add_log and get_recent_logs on their own ---------------------------------
\* logs.sort(key=timestamp, reverse=True): the entries newest first.  The
\* timestamps are distinct, so the sorted list is the one arrangement of the
\* entries that is in descending order.  A list that is a newest-first run
\* followed by an oldest-first run of later entries is sorted by turning the
\* second run round and putting it in front; any other list is sorted by
\* comparison.
Reverse(q) == [i \in 1..Len(q) |-> q[Len(q) + 1 - i]]
Descending(q) == \A i \in 1..(Len(q) - 1) : q[i].timestamp > q[i + 1].timestamp
SortNewestFirst(q) ==
    LET m == Cardinality({i \in 1..(Len(q) - 1) : q[i].timestamp > q[i + 1].timestamp}) + 1
        turned == Reverse(SubSeq(q, m + 1, Len(q))) \o SubSeq(q, 1, Min(m, Len(q)))
    IN  IF Descending(turned) THEN turned
        ELSE SortSeq(q, LAMBDA a, b : a.timestamp > b.timestamp)

\* get_recent_logs(limit, log_type, user_id): [logs, out], the stored list
\* afterwards and the list returned.  A filter that is given (a log_type
\* that is not empty, a user_id that is not 0) builds a new list; without
\* one `logs` is the stored list itself, and logs.sort sorts it in place,
\* newest first.
get_recent_logs(logs, limit, log_type, user_id) ==
    LET kept == SelectSeq(logs, LAMBDA e : /\ (log_type # "" => e.type = log_type)
                                           /\ (user_id # 0 => e.user_id = user_id))
        sorted == SortNewestFirst(kept)
    IN  [logs |-> IF log_type = "" /\ user_id = 0 THEN sorted ELSE logs,
         out |-> SubSeq(sorted, 1, Min(limit, Len(sorted)))]

\* the log an earlier run has left in the file after k calls of add_log
LogOf(k) ==
    [i \in 1..k |-> [type |-> "giveaway_ended", user_id |-> 0, giveaway_id |-> NoId,
                     details |-> <<>>, timestamp |-> i]]

\* probe.n: the number of entries appended so far; probe.out: the timestamps
\* of the entries the last query returned
InitLog ==
    /\ \E k \in {0, LogLimit - 1} :
          /\ file = [DefaultData EXCEPT !.logs = LogOf(k)]
          /\ probe = [fn |-> "logs", n |-> k, calls |-> 0, out |-> <<>>]
    /\ data = load_data(file)
    /\ auto_save_counter = 0
    /\ now = 0
    /\ phase = "loaded"
    /\ jobs = {}
    /\ task = [t \in Tasks |-> Idle]
    /\ sent = [c \in Serials |-> NoSent]
    /\ last = "none"
    /\ restarts = 0
    /\ edits = 0
    /\ warned = {}
    /\ gate = NoGate

LogRest == <<now, phase, jobs, task, sent, last, restarts, edits, warned, gate>>

\* the call add_log("user_joined", u)
AddLog(u) ==
    /\ probe.fn = "logs"
    /\ probe.calls < MaxCalls
    /\ Commit(add_log(Store, "user_joined", u, NoId, <<>>))
    /\ probe' = [probe EXCEPT !.n = probe.n + 1, !.calls = probe.calls + 1]
    /\ UNCHANGED LogRest

\* the call get_recent_logs(limit, log_type, user_id)
GetRecentLogs(limit, log_type, user_id) ==
    LET r == get_recent_logs(data.logs, limit, log_type, user_id) IN
    /\ probe.fn = "logs"
    /\ probe.calls < MaxCalls
    /\ data' = [data EXCEPT !.logs = r.logs]
    /\ probe' = [probe EXCEPT !.calls = probe.calls + 1,
                              !.out = [i \in 1..Len(r.out) |-> r.out[i].timestamp]]
    /\ UNCHANGED <<file, auto_save_counter>>
    /\ UNCHANGED LogRest

LogNext ==
    \/ \E u \in {0} \cup Users : AddLog(u)
    \/ \E limit \in 1..NumUsers, by \in {<<"", 0>>, <<"user_joined", 0>>, <<"", 1>>} :
          GetRecentLogs(limit, by[1], by[2])
SpecLog == InitLog /\ [][LogNext]_vars

\* ---- ban_user and unban_user on their own ------------------------------------
\* Calls of ban_user(u) and unban_user(u) in any order (/pban, /punban).
\* probe.active follows the calls: the users whose last call that returned
\* True was a ban_user; probe.ret is what the last call returned.
InitBans ==
    /\ file \in InitFiles
    /\ data = load_data(file)
    /\ auto_save_counter = 0
    /\ now = 0
    /\ phase = "loaded"
    /\ jobs = {}
    /\ task = [t \in Tasks |-> Idle]
    /\ sent = [c \in Serials |-> NoSent]
    /\ last = "none"
    /\ restarts = 0
    /\ edits = 0
    /\ warned = {}
    /\ gate = NoGate
    /\ probe = [fn |-> "bans", active |-> {}, ret |-> "none", calls |-> 0]

BansRest == <<now, phase, jobs, task, sent, last, restarts, edits, warned>>

\* the call ban_user(u)
BanCall(u) ==
    LET r == ban_user(Store, gate.banned, u) IN
    /\ probe.fn = "bans"
    /\ probe.calls < MaxCalls
    /\ Commit(r.st)
    /\ gate' = [gate EXCEPT !.banned = r.banned]
    /\ probe' = [probe EXCEPT !.calls = probe.calls + 1,
                              !.ret = IF r.ok THEN "True" ELSE "False",
                              !.active = IF r.ok THEN probe.active \cup {u} ELSE probe.active]
    /\ UNCHANGED BansRest

\* the call unban_user(u)
UnbanCall(u) ==
    LET r == unban_user(Store, gate.banned, u) IN
    /\ probe.fn = "bans"
    /\ probe.calls < MaxCalls
    /\ Commit(r.st)
    /\ gate' = [gate EXCEPT !.banned = r.banned]
    /\ probe' = [probe EXCEPT !.calls = probe.calls + 1,
                              !.ret = IF r.ok THEN "True" ELSE "False",
                              !.active = IF r.ok THEN probe.active \ {u} ELSE probe.active]
    /\ UNCHANGED BansRest

BansNext ==
    \/ \E u \in Users : BanCall(u)
    \/ \E u \in Users : UnbanCall(u)
SpecBans == InitBans /\ [][BansNext]_vars

\* ---- the mutating calls of the store on their own ------------------------------
\* Calls of the methods that write to the giveaways, participants, winners,
\* logs and user statistics, in any order, for the giveaway of the first
\* second.  probe.deferred counts the calls that have changed self.data
\* since self.data and the file were last equal.
InitStore ==
    /\ file \in InitFiles
    /\ data = load_data(file)
    /\ auto_save_counter = 0
    /\ now = 0
    /\ phase = "loaded"
    /\ jobs = {}
    /\ task = [t \in Tasks |-> Idle]
    /\ sent = [c \in Serials |-> NoSent]
    /\ last = "none"
    /\ restarts = 0
    /\ edits = 0
    /\ warned = {}
    /\ gate = NoGate
    /\ probe = [fn |-> "store", calls |-> 0, deferred |-> 0]

\* a call has returned with store value st
Called(st) ==
    /\ probe.fn = "store"
    /\ probe.calls < MaxStoreCalls
    /\ Commit(st)
    /\ probe' = [probe EXCEPT !.calls = probe.calls + 1,
                              !.deferred = IF st.file = st.data THEN 0
                                           ELSE IF st.data = data THEN probe.deferred
                                           ELSE probe.deferred + 1]
    /\ UNCHANGED <<now, phase, jobs, task, sent, last, restarts, edits, warned, gate>>

CreateCall ==
    /\ data.giveaway_counters < MaxCreates
    /\ \E id \in generate_giveaway_id(now), c \in 1..MaxWinnerCount :
          Called(create_giveaway(Store, id, 0, MaxTime, c))
UpdateGiveawayCall(id) ==
    Called(update_giveaway(Store, id, [winners_selected |-> TRUE]).st)
AddParticipantCall(id, u) == Called(add_participant(Store, id, u, now).st)
RemoveParticipantCall(id, u) == Called(remove_participant(Store, id, u).st)
AddWinnerCall(id, u) == Called(add_winner(Store, id, u).st)
AddLogCall == Called(add_log(Store, "giveaway_created", 0, NoId, <<>>))
UpdateUserStatsCall(u) == Called(update_user_stats(Store, u, "total_wins"))

StoreNext ==
    \/ CreateCall
    \/ \E id \in generate_giveaway_id(0) : UpdateGiveawayCall(id)
    \/ \E id \in generate_giveaway_id(0), u \in Users : AddParticipantCall(id, u)
    \/ \E id \in generate_giveaway_id(0), u \in Users : RemoveParticipantCall(id, u)
    \/ \E id \in generate_giveaway_id(0), u \in Users : AddWinnerCall(id, u)
    \/ AddLogCall
    \/ \E u \in Users : UpdateUserStatsCall(u)
SpecStore == InitStore /\ [][StoreNext]_vars

\* ---- JSONDatabase.__init__ on a backing file in any state ----------------------
\* The variables other than probe, as they are after construction on an empty
\* file, and left alone by a call that is looked at on its own.
Quiet ==
    /\ file = DefaultData
    /\ data = load_data(file)
    /\ auto_save_counter = 0
    /\ now = 0
    /\ phase = "loaded"
    /\ jobs = {}
    /\ task = [t \in Tasks |-> Idle]
    /\ sent = [c \in Serials |-> NoSent]
    /\ last = "none"
    /\ restarts = 0
    /\ edits = 0
    /\ warned = {}
    /\ gate = NoGate
OnlyProbe == <<data, file, auto_save_counter, now, phase, jobs, task, sent, last,
               restarts, edits, warned, gate>>

\* the keys of _get_default_data and of its "settings"
TopKeys == {"giveaways", "participants", "winners", "banned_users", "broadcast_chats",
            "user_cooldowns", "logs", "giveaway_counters", "user_stats", "settings"}
SettingKeys == {"last_cleanup", "version"}
\* the giveaway IDs a file may hold
FileIds == {"g"}

\* What json.load returns: a dict, or another JSON value (a list, null).  Of
\* a dict: its top-level keys, the keys of its "settings", the IDs under
\* "giveaways" and the IDs under "participants"; defaulted names the keys
\* whose value is not the one read from the file but the default.
NoValue == [type |-> "none", keys |-> {}, settings |-> {}, giveaways |-> {},
            buckets |-> {}, defaulted |-> {}]
JsonDicts ==
    {[type |-> "dict", keys |-> K, settings |-> S, giveaways |-> G, buckets |-> B,
      defaulted |-> {}] :
        K \in SUBSET TopKeys, S \in SUBSET SettingKeys, G \in SUBSET FileIds,
        B \in SUBSET FileIds}
JsonValues ==
    {[NoValue EXCEPT !.type = t] : t \in {"list", "null"}} \cup
    {v \in JsonDicts : /\ "settings" \notin v.keys => v.settings = {}
                       /\ "giveaways" \notin v.keys => v.giveaways = {}
                       /\ "participants" \notin v.keys => v.buckets = {}}

\* _get_default_data
get_default_data ==
    [type |-> "dict", keys |-> TopKeys, settings |-> SettingKeys, giveaways |-> {},
     buckets |-> {}, defaulted |-> TopKeys \cup SettingKeys]

\* _ensure_data_structure(data): [raised, value].  `key not in data` and
\* `data[key] = default_value` raise TypeError on a value that is no dict.
ensure_data_structure(v) ==
    IF v.type # "dict" THEN [raised |-> TRUE, value |-> v]
    ELSE [raised |-> FALSE,
          value |-> [type |-> "dict",
                     keys |-> v.keys \cup TopKeys,
                     settings |-> IF "settings" \in v.keys THEN v.settings \cup SettingKeys
                                  ELSE SettingKeys,
                     giveaways |-> v.giveaways,
                     buckets |-> v.buckets \cup v.giveaways,
                     defaulted |-> (TopKeys \ v.keys) \cup
                                   (IF "settings" \in v.keys THEN SettingKeys \ v.settings
                                    ELSE SettingKeys)]]

\* The backing file: missing, bytes that are not UTF-8, text that is not
\* JSON, or JSON text.
NoFile == [kind |-> "missing", value |-> NoValue]
DiskFiles ==
    {[kind |-> k, value |-> NoValue] : k \in {"missing", "bytes", "text"}} \cup
    {[kind |-> "json", value |-> v] : v \in JsonValues}

\* _save_data(d) on the file disk with the backup file backup: [disk, backup]
save_data(disk, backup, d) ==
    [disk |-> [kind |-> "json", value |-> d],
     backup |-> IF disk.kind # "missing" THEN disk ELSE backup]

\* _load_data: [raised, data, disk, backup].  open(..., encoding='utf-8') with
\* json.load raises UnicodeDecodeError on bytes that are not UTF-8 and
\* JSONDecodeError on text that is not JSON; only the second is caught.
load_data_file(disk, backup) ==
    LET fresh == save_data(disk, backup, get_default_data)
        e == ensure_data_structure(disk.value)
    IN  CASE disk.kind \in {"missing", "text"} ->
               [raised |-> FALSE, data |-> get_default_data, disk |-> fresh.disk,
                backup |-> fresh.backup]
          [] disk.kind = "bytes" ->
               [raised |-> TRUE, data |-> NoValue, disk |-> disk, backup |-> backup]
          [] OTHER ->
               [raised |-> e.raised, data |-> IF e.raised THEN NoValue ELSE e.value,
                disk |-> disk, backup |-> backup]

InitLoad ==
    /\ Quiet
    /\ \E d \in DiskFiles :
          probe = [fn |-> "load", before |-> d, disk |-> d, backup |-> NoFile,
                   done |-> FALSE, raised |-> FALSE, data |-> NoValue]

\* JSONDatabase(file_path)
Construct ==
    /\ probe.fn = "load"
    /\ ~probe.done
    /\ LET r == load_data_file(probe.disk, probe.backup) IN
       probe' = [probe EXCEPT !.done = TRUE, !.raised = r.raised, !.data = r.data,
                              !.disk = r.disk, !.backup = r.backup]
    /\ UNCHANGED OnlyProbe

SpecLoad == InitLoad /\ [][Construct]_vars

\* ---- ChannelChecker.check_subscription on its own ------------------------------
\* What the two network calls do for one channel and the user: get_chat fails
\* with UsernameInvalid/UsernameNotOccupied ("invalid") or with another error
\* ("chat_error"); or it returns the chat and get_chat_member raises
\* UserNotParticipant ("not_participant"), raises another error
\* ("member_error"), or returns a member whose status is the string "left",
\* "kicked" or another one ("member").
Channels == {"news", "chat"}
Outcomes == {"invalid", "chat_error", "not_participant", "member_error",
             "left", "kicked", "member"}
Errors == {"invalid", "chat_error", "member_error"}

\* required_channels: a list of at most MaxChannels usernames
ChannelLists == UNION {[1..n -> Channels] : n \in 0..MaxChannels}

\* check_subscription that skips a channel whose lookup raised
RECURSIVE check_subscription_open(_, _)
check_subscription_open(channels, world) ==
    IF channels = <<>> THEN [ok |-> TRUE, missing |-> <<>>]
    ELSE LET c == Head(channels)
             rest == check_subscription_open(Tail(channels), world)
             miss == IF world[c] \in {"not_participant", "left", "kicked"}
                     THEN <<[username |-> c, id |-> c]>> ELSE <<>>
         IN  [ok |-> miss = <<>> /\ rest.ok, missing |-> miss \o rest.missing]

\* the body of the loop for one channel: the entries it appends to
\* missing_channels.  An entry written by an except branch has id None
\* (here "none"), one written for a chat that was found has chat.id.
MissingEntry(c, o) ==
    CASE o \in {"invalid", "chat_error", "member_error"} -> <<[username |-> c, id |-> "none"]>>
      [] o \in {"not_participant", "left", "kicked"} -> <<[username |-> c, id |-> c]>>
      [] OTHER -> <<>>

\* check_subscription(user_id): [ok, missing]
RECURSIVE MissingChannels(_, _)
MissingChannels(channels, world) ==
    IF channels = <<>> THEN <<>>
    ELSE MissingEntry(Head(channels), world[Head(channels)])
             \o MissingChannels(Tail(channels), world)
check_subscription(channels, world) ==
    LET missing == MissingChannels(channels, world) IN
    IF channels = <<>> THEN [ok |-> TRUE, missing |-> <<>>]
    ELSE [ok |-> Len(missing) = 0, missing |-> missing]

InitSubscription ==
    /\ Quiet
    /\ \E channels \in ChannelLists, world \in [Channels -> Outcomes] :
          probe = [fn |-> "subscription", channels |-> channels, world |-> world,
                   done |-> FALSE, ok |-> FALSE, missing |-> <<>>]

\* the call check_subscription(user_id)
CheckSubscription ==
    /\ probe.fn = "subscription"
    /\ ~probe.done
    /\ LET r == check_subscription(probe.channels, probe.world) IN
       probe' = [probe EXCEPT !.done = TRUE, !.ok = r.ok, !.missing = r.missing]
    /\ UNCHANGED OnlyProbe

SpecSubscription == InitSubscription /\ [][CheckSubscription]_vars

\* ---- two store calls in two tasks of the event loop ------------------------------
\* Two coroutines, each making one mutating call on the store, on the one
\* event loop of the process.  A coroutine keeps the loop until it awaits
\* something that is not ready; in the store the only such thing is the lock
\* of save() when another coroutine holds it.  A call is taken apart at its
\* awaits: the writes to self.data up to the first auto_save_check, then for
\* each auto_save_check the increment and comparison, `async with self.lock`,
\* _save_data with the release of the lock, and the reset of the counter.
\* probe.running is the coroutine that has the loop (0: none), probe.lock the
\* coroutine that holds the lock (0: free), probe.left the auto_save_check
\* calls a coroutine has still to make.
Coroutines == {1, 2}
StoreCalls ==
    {[name |-> n, u |-> u] : n \in {"add_participant", "remove_participant"}, u \in Users}
        \cup {[name |-> "update_giveaway", u |-> 1]}

\* the call as a whole: [st, ok]; the giveaway is the one of the first second
CallResult(st, c) ==
    CASE c.name = "add_participant" ->
           LET r == add_participant(st, <<0, 1>>, c.u, 0) IN [st |-> r.st, ok |-> r.ok]
      [] c.name = "remove_participant" -> remove_participant(st, <<0, 1>>, c.u)
      [] OTHER -> update_giveaway(st, <<0, 1>>, [status |-> "ended"])
\* the auto_save_check calls it makes: add_participant and remove_participant
\* one inside update_user_stats and one of their own, update_giveaway one
Checks(st, c) ==
    IF ~CallResult(st, c).ok THEN 0
    ELSE IF c.name = "update_giveaway" THEN 1 ELSE 2

\* an await gives up the loop only while what is awaited is not ready:
\* never for a coroutine of the store, for the lock only while it is held
EveryAwaitSuspends(awaited, held) == awaited # "nothing"
Suspends(awaited, held) == awaited = "lock" /\ held

\* stores holding the giveaway of the first second, active, with no
\* participant or with user 1 as participant, saved, the counter anywhere
\* below the threshold
SerialStores ==
    LET s0 == create_giveaway([data |-> DefaultData, file |-> DefaultData, ctr |-> 0],
                              <<0, 1>>, 0, 1, 1)
        s1 == save(add_participant(s0, <<0, 1>>, 1, 0).st)
    IN  {[s EXCEPT !.ctr = k] : s \in {s0, s1},
                                k \in {0, auto_save_threshold - 2, auto_save_threshold - 1}}

InitSerial ==
    /\ \E s \in SerialStores, c1 \in StoreCalls, c2 \in StoreCalls :
          /\ data = s.data /\ file = s.file /\ auto_save_counter = s.ctr
          /\ probe = [fn |-> "serial", st0 |-> s, calls |-> <<c1, c2>>,
                      pc |-> <<"call", "call">>, left |-> <<0, 0>>,
                      running |-> 0, lock |-> 0]
    /\ now = 0
    /\ phase = "loaded"
    /\ jobs = {}
    /\ task = [t \in Tasks |-> Idle]
    /\ sent = [c \in Serials |-> NoSent]
    /\ last = "none"
    /\ restarts = 0
    /\ edits = 0
    /\ warned = {}
    /\ gate = NoGate

SerialRest == <<now, phase, jobs, task, sent, last, restarts, edits, warned, gate>>

\* coroutine t goes on to pc with `left` checks to make, after awaiting `awaited`
GoOn(t, pc, left, awaited, lock) ==
    probe' = [probe EXCEPT !.pc[t] = pc, !.left[t] = left, !.lock = lock,
                           !.running = IF pc = "done" \/ Suspends(awaited, probe.lock # 0)
                                       THEN 0 ELSE t]
HasLoop(t, pc) ==
    /\ probe.fn = "serial"
    /\ probe.running \in {0, t}
    /\ probe.pc[t] = pc

\* the method up to its first auto_save_check: every write to self.data
SerialCall(t) ==
    LET c == probe.calls[t]
        n == Checks(Store, c)
    IN  /\ HasLoop(t, "call")
        /\ data' = CallResult(Store, c).st.data
        /\ GoOn(t, IF n = 0 THEN "done" ELSE "tick", n, "coroutine", probe.lock)
        /\ UNCHANGED <<file, auto_save_counter>>
        /\ UNCHANGED SerialRest

\* auto_save_check: self.auto_save_counter += 1 and the comparison
SerialTick(t) ==
    /\ HasLoop(t, "tick")
    /\ auto_save_counter' = auto_save_counter + 1
    /\ IF auto_save_counter + 1 >= auto_save_threshold
       THEN GoOn(t, "acquire", probe.left[t], "coroutine", probe.lock)
       ELSE GoOn(t, IF probe.left[t] = 1 THEN "done" ELSE "tick", probe.left[t] - 1,
                 "coroutine", probe.lock)
    /\ UNCHANGED <<data, file>>
    /\ UNCHANGED SerialRest

\* save: async with self.lock
SerialAcquire(t) ==
    /\ HasLoop(t, "acquire")
    /\ IF probe.lock = 0
       THEN GoOn(t, "write", probe.left[t], "lock", t)
       ELSE /\ probe.running = t
            /\ probe' = [probe EXCEPT !.running = 0]
    /\ UNCHANGED <<data, file, auto_save_counter>>
    /\ UNCHANGED SerialRest

\* save: _save_data(self.data) and the release of the lock
SerialWrite(t) ==
    /\ HasLoop(t, "write")
    /\ file' = data
    /\ GoOn(t, "reset", probe.left[t], "nothing", 0)
    /\ UNCHANGED <<data, auto_save_counter>>
    /\ UNCHANGED SerialRest

\* auto_save_check: self.auto_save_counter = 0
SerialReset(t) ==
    /\ HasLoop(t, "reset")
    /\ auto_save_counter' = 0
    /\ GoOn(t, IF probe.left[t] = 1 THEN "done" ELSE "tick", probe.left[t] - 1,
            "coroutine", probe.lock)
    /\ UNCHANGED <<data, file>>
    /\ UNCHANGED SerialRest

SerialNext ==
    \/ \E t \in Coroutines : SerialCall(t)
    \/ \E t \in Coroutines : SerialTick(t)
    \/ \E t \in Coroutines : SerialAcquire(t)
    \/ \E t \in Coroutines : SerialWrite(t)
    \/ \E t \in Coroutines : SerialReset(t)
SpecSerial == InitSerial /\ [][SerialNext]_vars

\* ---- joins of giveaways made by the wizard --------------------------------------
\* the creation wizard together with /part
JoinNext ==
    \/ CreateNext
    \/ \E id \in GiveawayIds, u \in Users : Participate(id, u)
SpecJoin == InitCreate /\ [][JoinNext]_vars

\* ---- confirm_create delivered more than once ------------------------------------
\* Python dicts are objects: creation_states[user]["preview_data"] and the
\* values of data["giveaways"] are references.  probe.heap holds the dict
\* objects of giveaway data by reference, probe.giveaways is data["giveaways"]
\* (ID -> reference), probe.session the preview_data of the owner's session
\* (0: no session), probe.sessions the wizard sessions that reached the
\* preview, probe.handler the position of each handle_confirm_create, and
\* probe.announced the announcements of new giveaways sent.
Refs == 1..MaxCreates
ConfirmHandlers == {1, 2}
NoDict == [id |-> NoId, status |-> "none"]
NoConfirm == [pc |-> "idle", gid |-> NoId]

InitConfirm ==
    /\ Quiet
    /\ probe = [fn |-> "confirm", heap |-> [r \in Refs |-> NoDict], giveaways |-> <<>>,
                session |-> 0, sessions |-> 0,
                handler |-> [h \in ConfirmHandlers |-> NoConfirm], announced |-> 0]

\* the wizard reaches show_preview: a new dict becomes the preview_data
show_preview ==
    /\ probe.fn = "confirm"
    /\ probe.sessions < MaxCreates
    /\ probe' = [probe EXCEPT !.sessions = probe.sessions + 1,
                              !.session = probe.sessions + 1,
                              !.heap[probe.sessions + 1] = [id |-> NoId, status |-> "preview"]]
    /\ UNCHANGED OnlyProbe

\* handle_confirm_create up to the sends of announce_giveaway:
\* GiveawayHandler.create_giveaway takes the preview_data of the session,
\* generates an ID, and JSONDatabase.create_giveaway updates that dict in
\* place and stores it under the ID.  The session is still there.
handle_confirm_create(h) ==
    /\ probe.fn = "confirm"
    /\ probe.handler[h].pc = "idle"
    /\ probe.session # 0
    /\ \E id \in generate_giveaway_id(now) :
          probe' = [probe EXCEPT !.heap[probe.session] = [id |-> id, status |-> "active"],
                                 !.giveaways = Put(probe.giveaways, id, probe.session),
                                 !.handler[h] = [pc |-> "announce_giveaway", gid |-> id]]
    /\ UNCHANGED OnlyProbe

\* the sends of announce_giveaway are done: the session is deleted if it is
\* still there, and the handler replies
announce_giveaway(h) ==
    /\ probe.fn = "confirm"
    /\ probe.handler[h].pc = "announce_giveaway"
    /\ probe' = [probe EXCEPT !.announced = probe.announced + 1,
                              !.session = 0,
                              !.handler[h] = NoConfirm]
    /\ UNCHANGED OnlyProbe

\* update_giveaway(id, {"status": "ended", ...}) of an end transition:
\* dict.update on the object stored under the ID
end_stored(id) ==
    /\ probe.fn = "confirm"
    /\ Has(probe.giveaways, id)
    /\ probe.heap[Get(probe.giveaways, id)].status = "active"
    /\ probe' = [probe EXCEPT !.heap[Get(probe.giveaways, id)].status = "ended"]
    /\ UNCHANGED OnlyProbe

ConfirmNext ==
    \/ Tick
    \/ show_preview
    \/ \E h \in ConfirmHandlers : handle_confirm_create(h)
    \/ \E h \in ConfirmHandlers : announce_giveaway(h)
    \/ \E id \in GiveawayIds : end_stored(id)
SpecConfirm == InitConfirm /\ [][ConfirmNext]_vars

\* ---- add_broadcast_chat and remove_broadcast_chat on their own -------------------
\* data["broadcast_chats"] is a list of dicts; of each the username, the
\* chat_id and the active flag are kept.  probe.chats is the list, probe.saved
\* the list in the file, probe.ret what the last call returned.
ChatNames == {"news", "chat"}
\* chat_info: chat_id 0 stands for a chat_info without chat ID (None)
ChatInfos == [username : ChatNames, chat_id : {0, 1, 2}]

\* add_broadcast_chat(chat_info): [chats, ok]; a chat whose username or
\* chat_id is in the list, active or not, is not added
add_broadcast_chat(chats, c) ==
    IF \E i \in 1..Len(chats) :
          \/ chats[i].username = c.username
          \/ (c.chat_id # 0 /\ chats[i].chat_id = c.chat_id)
    THEN [chats |-> chats, ok |-> FALSE]
    ELSE [chats |-> Append(chats, [username |-> c.username, chat_id |-> c.chat_id,
                                   active |-> TRUE]),
          ok |-> TRUE]

\* remove_broadcast_chat(username): [chats, ok]; the first entry with the
\* username is marked inactive
remove_broadcast_chat(chats, username) ==
    LET found == {i \in 1..Len(chats) : chats[i].username = username} IN
    IF found = {} THEN [chats |-> chats, ok |-> FALSE]
    ELSE LET i == CHOOSE k \in found : \A m \in found : k <= m IN
         [chats |-> [chats EXCEPT ![i].active = FALSE], ok |-> TRUE]

\* get_broadcast_chats(): the active entries
get_broadcast_chats(chats) == SelectSeq(chats, LAMBDA e : e.active)

InitBroadcast ==
    /\ Quiet
    /\ probe = [fn |-> "broadcast", chats |-> <<>>, saved |-> <<>>, ret |-> "none",
                calls |-> 0]

\* a call has returned r = [chats, ok]; both methods save() when they return True
BroadcastCalled(r) ==
    /\ probe.fn = "broadcast"
    /\ probe.calls < MaxCalls
    /\ probe' = [probe EXCEPT !.calls = probe.calls + 1,
                              !.chats = r.chats,
                              !.saved = IF r.ok THEN r.chats ELSE probe.saved,
                              !.ret = IF r.ok THEN "True" ELSE "False"]
    /\ UNCHANGED OnlyProbe

AddBroadcastChat(c) == BroadcastCalled(add_broadcast_chat(probe.chats, c))
RemoveBroadcastChat(username) == BroadcastCalled(remove_broadcast_chat(probe.chats, username))

BroadcastNext ==
    \/ \E c \in ChatInfos : AddBroadcastChat(c)
    \/ \E username \in ChatNames : RemoveBroadcastChat(username)
SpecBroadcast == InitBroadcast /\ [][BroadcastNext]_vars

\* ---- callback data of the participant buttons -----------------------------------
\* A str is a sequence of pieces: the separator "_" and words without "_".
\* str(n) of an int is the word of its digits, int(w) its inverse, which
\* raises ValueError on a word that is no number.
Digits == <<"0", "1", "2", "3", "4", "5", "6", "7", "8", "9">>
Str(n) == Digits[n + 1]
IsInt(w) == \E n \in 0..(Len(Digits) - 1) : Str(n) = w
ParseInt(w) == CHOOSE n \in 0..(Len(Digits) - 1) : Str(n) = w

\* str.split("_"): the words between the separators
RECURSIVE Split(_)
Split(s) ==
    IF s = <<>> THEN <<>>
    ELSE IF Head(s) = "_" THEN Split(Tail(s))
    ELSE <<Head(s)>> \o Split(Tail(s))

\* generate_giveaway_id as text: f"GIVEAWAY_{timestamp}_{random_str}"
SuffixTexts == {"AB12CD", "7"}
IdText(timestamp, random_str) == <<"GIVEAWAY", "_", Str(timestamp), "_", random_str>>
IdTexts == {IdText(t, x) : t \in 0..(Len(Digits) - 1), x \in SuffixTexts}

\* the callback_data of the buttons: f"remove_part_{giveaway_id}_{user_id}"
\* and f"admin_parts_{giveaway_id}_{page}"
ButtonData(kind, giveaway_id, n) ==
    (IF kind = "remove_part" THEN <<"remove", "_", "part", "_">>
     ELSE <<"admin", "_", "parts", "_">>) \o giveaway_id \o <<"_", Str(n)>>

\* handle_remove_participant and handle_admin_participants, up to the use of
\* what they parsed: data_parts = data.split("_"), giveaway_id =
\* data_parts[2], the number int(data_parts[3]); [ok, giveaway_id, n], ok
\* FALSE for "Invalid callback data" and for the ValueError of int()
ParseButton(callback_data) ==
    LET data_parts == Split(callback_data) IN
    IF Len(data_parts) < 4 \/ ~IsInt(data_parts[4])
    THEN [ok |-> FALSE, giveaway_id |-> <<>>, n |-> 0]
    ELSE [ok |-> TRUE, giveaway_id |-> <<data_parts[3]>>, n |-> ParseInt(data_parts[4])]

InitButton ==
    /\ Quiet
    /\ \E kind \in {"remove_part", "admin_parts"}, id \in IdTexts, n \in 0..NumUsers :
          probe = [fn |-> "button", kind |-> kind, giveaway_id |-> id, n |-> n,
                   done |-> FALSE, out |-> [ok |-> FALSE, giveaway_id |-> <<>>, n |-> 0]]

\* the button is pressed and its handler parses the callback data
PressButton ==
    /\ probe.fn = "button"
    /\ ~probe.done
    /\ probe' = [probe EXCEPT
                    !.done = TRUE,
                    !.out = ParseButton(ButtonData(probe.kind, probe.giveaway_id, probe.n))]
    /\ UNCHANGED OnlyProbe

SpecButton == InitButton /\ [][PressButton]_vars

\* ---- properties ------------------------------------------------------------
\* the users with an active ban record, and the active records of a user
BannedNow == {gate.banned[i].user_id : i \in {j \in 1..Len(gate.banned) : gate.banned[j].active}}
ActiveBans(u) == {i \in 1..Len(gate.banned) : gate.banned[i].user_id = u /\ gate.banned[i].active}
\* the record stored under id, by its creation ordinal (0: none)
RecordOf(id) == IF HasGiveaway(data, id) THEN get_giveaway(data, id).created_at ELSE 0
StatusOf(id) == IF HasGiveaway(data, id) THEN get_giveaway(data, id).status ELSE "none"
\* a coroutine is still inside end_giveaway for record c
InProgress(c) == \E t \in Tasks : task[t].pc # "idle" /\ task[t].rec = c
\* the end transition of the giveaway stored under id has run and returned
EndCompleted(id) ==
    /\ StatusOf(id) = "ended"
    /\ sent[RecordOf(id)].ends >= 1
    /\ ~InProgress(RecordOf(id))

\* C1. Idempotent ending: a call of end_giveaway for a giveaway whose end
\* transition has completed (here by /end or by the timer job of the
\* giveaway) changes nothing: the store (status, ended_at, winner records,
\* log), the file and the announcements and DMs sent stay as they were.
C1_IdempotentEnding ==
    [][\A id \in GiveawayIds :
          (EndCompleted(id) /\ (AdminEnd(id) \/ \E j \in jobs : j.id = id /\ TimerFire(j)))
          => (data' = data /\ file' = file /\ sent' = sent)]_vars

\* C1 witness: the scheduler was never started, so /end is the only caller
\* of end_giveaway for the first giveaway and its calls follow one another;
\* one ended the giveaway and announced the winner, a later one found it ended.
C1_Witness ==
    /\ phase = "loaded"
    /\ data.giveaway_counters = 1
    /\ EndCompleted(<<0, 1>>)
    /\ RecordOf(<<0, 1>>) \in warned
    /\ sent[RecordOf(<<0, 1>>)] = [ends |-> 1, ann |-> 1, dm |-> 1]

\* the winner records of a giveaway name each user once
WinnersDistinct(id) ==
    LET ws == WinnersOf(data, id) IN
    \A i, j \in 1..Len(ws) : ws[i].user_id = ws[j].user_id => i = j

\* C2. However the timer job, the sweep, /end and the wizard interleave
\* their calls of end_giveaway within one process run, each giveaway record
\* is ended at most once, gets at most one announcement batch and one round
\* of winner DMs, and no user is stored twice as its winner; a record that a
\* caller found already ended was ended exactly once, and once no caller is
\* inside end_giveaway any more exactly one announcement batch has gone out.
C2_EndedOnceInARun ==
    /\ \A c \in Serials :
          /\ sent[c].ends <= 1
          /\ sent[c].ann <= sent[c].ends
          /\ sent[c].dm <= sent[c].ann
          /\ c \in warned => sent[c].ends = 1
          /\ (sent[c].ends = 1 /\ ~InProgress(c)) => sent[c].ann = 1
    /\ \A id \in GiveawayIds : WinnersDistinct(id)

\* C2 witness: the timer job is inside end_giveaway for the first giveaway,
\* between its status write and its announcement, and another caller has
\* meanwhile called end_giveaway for it and found it ended.
C2_Witness ==
    /\ task["timer"].pc = "announce_winners"
    /\ task["timer"].rec = 1
    /\ 1 \in warned
    /\ sent[1].ends = 1

\* C3. Exactly-once ending survives restarts: a giveaway record whose end
\* was announced is not ended again after the process stops and restarts
\* from the file, so no record ever gets a second announcement batch or a
\* second round of winner DMs (which a second draw would bring).
C3_EndedOnceAcrossRestarts ==
    \A c \in Serials : sent[c].ann <= 1 /\ sent[c].dm <= 1

\* C4. Startup recovery: when GiveawayScheduler.start runs on a store that
\* holds a giveaway with status active and end_time <= now, start itself ends
\* that giveaway (status ended), without waiting for the first sweep.
C4_StartEndsExpired ==
    [][start => \A id \in GiveawayIds :
                  (StatusOf(id) = "active" /\ get_giveaway(data, id).end_time <= now)
                  => (get_giveaway(data', id).status = "ended")]_vars

\* the giveaway stored under id is active and past its end time
Expired(id) == StatusOf(id) = "active" /\ get_giveaway(data, id).end_time <= now

Joined(d, id) == Keys(Bucket(d, id))
ActiveUsers(d, id) == Keys(get_participants(d, id))

\* C6. A giveaway whose status is ended gains no participant record in any
\* step, and a /part for it is answered "not active": the status is written
\* in the block of end_giveaway that reads the participants and draws, so no
\* join falls between the write and the draw or changes the set drawn from.
C6_NoJoinAfterFlip ==
    [][\A id \in GiveawayIds :
          StatusOf(id) = "ended"
          => /\ Joined(data', id) \subseteq Joined(data, id)
             /\ \A u \in Users :
                   ParticipateReply(id, u) => last' = "Giveaway is not active"]_vars

\* C6 witness: one giveaway was ever created, a coroutine is inside
\* end_giveaway for it, past the status write and the draw and before the
\* announcement, and a /part has been answered "not active".
C6_Witness ==
    /\ data.giveaway_counters = 1
    /\ \E t \in Tasks : task[t].pc = "announce_winners" /\ task[t].rec = 1
    /\ sent[1].ends = 1
    /\ last = "Giveaway is not active"

\* C7. Status monotonicity: the status stored under a giveaway ID never
\* goes from ended back to active.
C7_StatusMonotone ==
    [][\A id \in GiveawayIds :
          StatusOf(id) = "ended" => get_giveaway(data', id).status = "ended"]_vars

\* C8. Post-end immutability: once the end transition of a giveaway has
\* completed, the active participants, the participants_count and the users
\* in the winner list of that giveaway record do not change in any later step.
C8_FrozenAfterEnd ==
    [][\A id \in GiveawayIds :
          (EndCompleted(id) /\ get_giveaway(data', id).created_at = RecordOf(id))
          => /\ ActiveUsers(data', id) = ActiveUsers(data, id)
             /\ get_giveaway(data', id).participants_count
                  = get_giveaway(data, id).participants_count
             /\ WinnerIds(WinnersOf(data', id)) = WinnerIds(WinnersOf(data, id))]_vars

\* each user has at most one record in each participant bucket
OneRecordEach ==
    \A i \in 1..Len(data.participants) :
        LET b == data.participants[i].v IN
        \A m, n \in 1..Len(b) : b[m].k = b[n].k => m = n

\* a /part for giveaway id by a user who has a record in its bucket
Rejoin(id, u) == u \in Joined(data, id) /\ ParticipateReply(id, u)
SameParticipants(id) ==
    /\ Bucket(data', id) = Bucket(data, id)
    /\ get_giveaway(data', id).participants_count = get_giveaway(data, id).participants_count

\* C9 as stated: a second add_participant by a user who has a record is
\* answered "already joined" and leaves participants and count unchanged.
C9_RejoinAlreadyJoined ==
    [][\A id \in GiveawayIds, u \in Users :
          Rejoin(id, u)
          => (last' = "Already joined this giveaway" /\ SameParticipants(id))]_vars

\* C9 amended. Participant exclusivity: no bucket holds two records of one
\* user, and a second add_participant by a user who has a record is refused
\* and leaves participants and count unchanged; the answer is "already
\* joined" while the giveaway is active and before its end time, "not
\* active" once its status is ended, "has ended" when active past its end.
C9_RejoinRefused ==
    /\ []OneRecordEach
    /\ [][\A id \in GiveawayIds, u \in Users :
             Rejoin(id, u)
             => /\ SameParticipants(id)
                /\ last' = IF StatusOf(id) # "active" THEN "Giveaway is not active"
                           ELSE IF get_giveaway(data, id).end_time <= now
                                THEN "Giveaway has ended"
                                ELSE "Already joined this giveaway"]_vars

\* C9 witness: a user with a record asked again and was answered "already joined"
C9_Witness ==
    /\ last = "Already joined this giveaway"
    /\ \E id \in GiveawayIds : Joined(data, id) # {}

\* C10. The cached participants_count of every giveaway equals the number
\* of active participant records of that giveaway.
C10_CountMatchesRecords ==
    \A id \in GiveawayIds :
        HasGiveaway(data, id)
        => get_giveaway(data, id).participants_count = Len(get_participants(data, id))

\* C11. No winner list holds two records of one user: add_winner for a user
\* who has a winner record of the giveaway returns False and leaves the list
\* as it was, in /cwinner as in the loop of end_giveaway over the users drawn
\* (a step that ends a giveaway only appends to its list, never a user twice).
C11_NoDuplicateWinner ==
    /\ [](\A id \in GiveawayIds :
            /\ WinnersDistinct(id)
            /\ \A u \in WinnerIds(WinnersOf(data, id)) :
                  LET r == add_winner(Store, id, u) IN
                  ~r.ok /\ WinnersOf(r.st.data, id) = WinnersOf(data, id))
    /\ [][\A id \in GiveawayIds :
             /\ \A u \in WinnerIds(WinnersOf(data, id)) :
                   ManualWinner(id, u) => WinnersOf(data', id) = WinnersOf(data, id)
             /\ (StatusOf(id) = "active" /\ get_giveaway(data', id).status = "ended")
                => /\ Len(WinnersOf(data', id)) >= Len(WinnersOf(data, id))
                   /\ SubSeq(WinnersOf(data', id), 1, Len(WinnersOf(data, id)))
                        = WinnersOf(data, id)
                   /\ Cardinality(WinnerIds(WinnersOf(data', id)))
                        = Len(WinnersOf(data', id))]_vars

\* C11 witness: the one giveaway ever created has two participants, none was
\* removed, /cwinner named a winner, the end transition drew one user and
\* announced: both called add_winner, and the list holds one record.
C11_Witness ==
    /\ data.giveaway_counters = 1
    /\ data.removed_participants = <<>>
    /\ edits = 1
    /\ sent[1] = [ends |-> 1, ann |-> 1, dm |-> 1]
    /\ \E id \in GiveawayIds :
          /\ RecordOf(id) = 1
          /\ Len(get_participants(data, id)) = 2
          /\ Len(WinnersOf(data, id)) = 1

\* C12. Every winner record is created for a user who holds an active
\* participant record of the giveaway when the record is created: a step
\* adds to a winner list only users who are active participants of that
\* giveaway before the step, in end_giveaway (which draws from the
\* participants it reads in the same block) as in /cwinner (which checks
\* is_participant before add_winner).
C12_WinnersAreParticipants ==
    [][\A id \in GiveawayIds :
          (WinnerIds(WinnersOf(data', id)) \ WinnerIds(WinnersOf(data, id)))
             \subseteq ActiveUsers(data, id)]_vars

\* C12 witness: the one giveaway ever created has two winner records with
\* winner_count 1, one from the draw of the end transition and one from
\* /cwinner, and both users are participants.
C12_Witness ==
    /\ data.giveaway_counters = 1
    /\ data.removed_participants = <<>>
    /\ edits = 1
    /\ sent[1].ends = 1
    /\ \E id \in GiveawayIds :
          /\ RecordOf(id) = 1
          /\ StatusOf(id) = "ended"
          /\ Len(WinnersOf(data, id)) = 2
          /\ WinnerIds(WinnersOf(data, id)) \subseteq ActiveUsers(data, id)


\* C13. The end transition leaves min(number of active participants at the
\* draw, winner_count) winner records: after the step of end_giveaway that
\* sets a giveaway to ended, reads its participants, draws and stores the
\* winners, the winner list of the giveaway has that length.
C13_WinnerCountIsMin ==
    [][\A id \in GiveawayIds :
          (StatusOf(id) = "active" /\ get_giveaway(data', id).status = "ended")
          => Len(WinnersOf(data', id))
               = Min(Len(get_participants(data, id)), get_giveaway(data, id).winner_count)]_vars

\* C14. Selection bound: select_winners(P, k) returns the empty list when P
\* is empty or k <= 0, and otherwise a list of exactly min(|P|, k) pairwise
\* distinct users, all of them keys of P; when |P| > k > 0 every k-subset of
\* the keys of P is the set of some list it can return.
C14_SelectionBound ==
    probe.fn = "select_winners"
    => LET P == probe.participants
           k == probe.winner_count
           w == probe.out
       IN  /\ probe.done
              => /\ Len(w) = IF Len(P) = 0 \/ k <= 0 THEN 0 ELSE Min(Len(P), k)
                 /\ \A i, j \in 1..Len(w) : w[i] = w[j] => i = j
                 /\ Range(w) \subseteq Keys(P)
           /\ (Len(P) > k /\ k > 0)
              => {Range(x) : x \in select_winners(P, k)}
                   = {S \in SUBSET Keys(P) : Cardinality(S) = k}

\* C14 witness: two winners were drawn from three participants
C14_Witness ==
    /\ probe.fn = "select_winners"
    /\ probe.done
    /\ Len(probe.participants) = 3
    /\ probe.winner_count = 2
    /\ Len(probe.out) = 2

\* ---- the validation gate ------------------------------------------------------
OracleWaits == {"part_oracle", "verify_oracle", "validate_oracle"}
\* the handler of user u calls ChannelChecker.check_subscription in this step
CallsOracle(u) ==
    /\ gate'.join[u].pc \in OracleWaits
    /\ gate'.join[u].pc # gate.join[u].pc
CooldownActive(u, action) ==
    /\ Has(gate.user_cooldowns, <<u, action>>)
    /\ now < Get(gate.user_cooldowns, <<u, action>>)
\* the check that fails first for user u and giveaway id, in the order
\* banned, not found or inactive, already participant, cooldown active
FirstFailing(u, id) ==
    IF u \in BannedNow THEN "banned"
    ELSE IF StatusOf(id) # "active" THEN "inactive"
    ELSE IF is_participant(data, id, u) THEN "joined"
    ELSE IF CooldownActive(u, "participate") THEN "cooldown"
    ELSE "none"
\* the check a rejection names
Names(reply) ==
    IF reply = "banned" THEN "banned"
    ELSE IF reply \in {"No active giveaway", "No active giveaway found.",
                       "This giveaway is not active."} THEN "inactive"
    ELSE IF reply = "You have already joined this giveaway." THEN "joined"
    ELSE IF reply = "cooldown" THEN "cooldown"
    ELSE "other"
\* the giveaway a /part is about: the first that get_active_giveaways returns
PartTarget == IF get_active_giveaways(data, now) = <<>> THEN NoId
              ELSE Head(get_active_giveaways(data, now))

\* C15. On every join path the subscription oracle is called only when the
\* ban, giveaway-exists-and-active, already-participant and cooldown checks
\* pass for the user and the giveaway, and a /part or a validation that
\* rejects names the check that fails first in the order banned, not found
\* or inactive, already participant, cooldown active.
C15_OracleCalledLast ==
    [][\A u \in Users :
          /\ CallsOracle(u) => FirstFailing(u, gate'.join[u].gid) = "none"
          /\ (participate_command(u) /\ ~CallsOracle(u))
             => Names(last') = FirstFailing(u, PartTarget)
          /\ (verify_subscription(u, TRUE) /\ ~CallsOracle(u))
             => Names(last') = FirstFailing(u, gate.join[u].gid)]_vars

\* C16. A participant record is created only for a join attempt that the
\* validation gate accepted: a handler to which validate_participation
\* returns a rejection, subscription_required included, adds no participant.
C16_RejectedNeverJoins ==
    [][\A u \in Users :
          (\/ part_subscription(u, FALSE)
           \/ verify_validated(u, FALSE)
           \/ (participate_command(u) /\ ~CallsOracle(u))
           \/ (verify_subscription(u, TRUE) /\ ~CallsOracle(u)))
          => \A id \in GiveawayIds : Bucket(data', id) = Bucket(data, id)]_vars

\* a join attempt of user u begins: /part, verify_sub_<id> or check_subscription
Attempts(u) ==
    \/ participate_command(u)
    \/ \E id \in GiveawayIds : handle_verify_subscription(u, id)
    \/ handle_check_subscription(u)
Participations ==
    [id \in GiveawayIds |->
        <<Bucket(data, id), IF HasGiveaway(data, id)
                            THEN get_giveaway(data, id).participants_count ELSE 0>>]

\* C17. A user with an active ban never obtains a participant
\* record, and a join attempt made while banned is answered with the ban
\* message and changes no participant set and no participants_count.
C17_BannedNeverJoins ==
    [][\A u \in Users :
          /\ (u \in BannedNow /\ Attempts(u))
             => (last' = "banned" /\ Participations' = Participations)
          /\ u \in BannedNow
             => \A id \in GiveawayIds : u \in Joined(data', id) => u \in Joined(data, id)]_vars

\* the answer add_participant owes user u for giveaway id, by its checks in order
Owed(id, u) ==
    IF ~HasGiveaway(data, id) THEN "Giveaway not found"
    ELSE IF get_giveaway(data, id).status # "active" THEN "Giveaway is not active"
    ELSE IF get_giveaway(data, id).end_time <= now THEN "Giveaway has ended"
    ELSE IF u \in Joined(data, id) THEN "Already joined this giveaway"
    ELSE "Successfully joined giveaway"

\* C18. add_participant rejects, in this order, an unknown giveaway (not
\* found), a status other than active (not active), an end time <= now with
\* status active (ended) and a user who has a record (already joined), and a
\* rejection leaves participants, every participants_count and the user
\* statistics as they were; otherwise it inserts the record, sets the count
\* to the size of the bucket and returns success.  /part answers with the
\* message add_participant returned.
C18_AddParticipantContract ==
    /\ [](\A id \in GiveawayIds, u \in Users :
            LET r == add_participant(Store, id, u, now) IN
            /\ r.msg = Owed(id, u)
            /\ r.ok <=> (Owed(id, u) = "Successfully joined giveaway")
            /\ ~r.ok => /\ r.st.data.participants = data.participants
                        /\ r.st.data.giveaways = data.giveaways
                        /\ r.st.data.user_stats = data.user_stats
            /\ r.ok => /\ Joined(r.st.data, id) = Joined(data, id) \cup {u}
                       /\ get_giveaway(r.st.data, id).participants_count
                            = Len(Bucket(r.st.data, id))
                       /\ r.st.data.user_stats[u].total_participations
                            = data.user_stats[u].total_participations + 1)
    /\ [][\A id \in GiveawayIds, u \in Users :
             ParticipateReply(id, u)
             => /\ last' = Owed(id, u)
                /\ Owed(id, u) # "Successfully joined giveaway"
                   => /\ data'.participants = data.participants
                      /\ data'.giveaways = data.giveaways
                      /\ data'.user_stats = data.user_stats]_vars

\* C18 witness: a /part was answered "has ended" for a giveaway that is
\* active past its end time and has a participant
C18_Witness ==
    /\ last = "Giveaway has ended"
    /\ \E id \in GiveawayIds :
          /\ StatusOf(id) = "active"
          /\ get_giveaway(data, id).end_time <= now
          /\ Joined(data, id) # {}

\* C19. Cooldown correctness: after set_cooldown(user, action, s) at time t,
\* check_cooldown(user, action) returns False at every time before t + s and
\* leaves the entry in place; at a time >= t + s it returns True and removes
\* the entry; with no entry for the key it returns True and changes nothing.
C19_CooldownCorrect ==
    [][\A u \in Users, action \in CooldownActions :
          CheckCooldown(u, action)
          => LET k == <<u, action>>
                 s == probe.set[k]
             IN  IF s = <<>>
                 THEN /\ probe'.last.ok
                      /\ ~Has(gate.user_cooldowns, k)
                      /\ gate' = gate /\ data' = data /\ file' = file
                      /\ auto_save_counter' = auto_save_counter
                 ELSE IF now < s[1] + s[2]
                 THEN /\ ~probe'.last.ok
                      /\ Has(gate.user_cooldowns, k)
                      /\ gate' = gate /\ data' = data
                 ELSE /\ probe'.last.ok
                      /\ Has(gate.user_cooldowns, k)
                      /\ gate'.user_cooldowns = Del(gate.user_cooldowns, k)]_vars

\* C19 witness: a cooldown of two periods set at time 0 was checked at time 1
\* and found active
C19_Witness ==
    /\ probe.fn = "cooldown"
    /\ now = 1
    /\ \E k \in CooldownKeys :
          /\ probe.last = [key |-> k, ok |-> FALSE]
          /\ probe.set[k] = <<0, 2>>
          /\ Has(gate.user_cooldowns, k)

\* C20. A giveaway with status active and end time e is returned at time
\* now by get_active_giveaways iff e > now and by get_expired_giveaways iff
\* e <= now, so by exactly one of the two (e = now: expired); a giveaway with
\* another status, like an ID the store does not hold, is returned by
\* neither.  GiveawayScheduler.start gives a job to exactly the giveaways of
\* the first list, and a sweep ends no giveaway of it.
C20_ActiveExpiredPartition ==
    /\ [](\A id \in GiveawayIds :
            LET inActive == id \in Range(get_active_giveaways(data, now))
                inExpired == id \in Range(get_expired_giveaways(data, now))
            IN  IF StatusOf(id) = "active"
                THEN /\ inActive <=> get_giveaway(data, id).end_time > now
                     /\ inExpired <=> get_giveaway(data, id).end_time <= now
                     /\ inActive # inExpired
                ELSE ~inActive /\ ~inExpired)
    /\ [][\A id \in GiveawayIds :
             /\ start => (id \in JobIds(jobs')
                            <=> (StatusOf(id) = "active"
                                 /\ get_giveaway(data, id).end_time > now))
             /\ (check_expired_giveaways /\ StatusOf(id) = "active"
                   /\ get_giveaway(data, id).end_time > now)
                => get_giveaway(data', id).status = "active"]_vars

\* C20 witness: the scheduler was started at the very end time of an active
\* giveaway and gave it no job, and the store also holds an ended giveaway
C20_Witness ==
    /\ phase = "running"
    /\ \E id \in GiveawayIds :
          /\ StatusOf(id) = "active"
          /\ get_giveaway(data, id).end_time = now
          /\ id \notin JobIds(jobs)
          /\ id \in Range(get_expired_giveaways(data, now))
    /\ \E id \in GiveawayIds : StatusOf(id) = "ended"

\* The records of all giveaways in the store
Records == {data.giveaways[i].v : i \in 1..Len(data.giveaways)}

\* C21. A create_giveaway that returns failure leaves the store as it was (no
\* record, bucket or counter increment for the ID), and the creation flow
\* then neither schedules nor announces the giveaway.
C21_FailedCreateLeavesNothing ==
    [][\A id \in GiveawayIds :
          (confirm_create(id, FALSE) /\ probe'.ret = "False")
          => /\ data' = data
             /\ id \notin probe'.scheduled
             /\ id \notin probe'.announced]_vars

\* C22. Every giveaway record has a winner count in 1..MaxWinners and an end
\* time after its start time; an input of the wizard with a winner count
\* that is not positive or above the maximum, or with an end time not after
\* the start time, is rejected: the session stays at its step and nothing is
\* stored.
C22_RecordsValid ==
    /\ [](\A r \in Records : /\ r.winner_count \in 1..MaxWinners
                              /\ r.end_time > r.start_time)
    /\ [][\A x \in WinnerCountInputs \cup TimeInputs :
            (/\ handle_creation_step(x)
             /\ \/ probe.step = 4 /\ (x <= 0 \/ x > MaxWinners)
                \/ probe.step = 6 /\ x <= probe.start_time)
            => /\ probe'.reply = "rejected"
               /\ probe'.step = probe.step
               /\ data' = data /\ file' = file]_vars

\* C22 witness: the wizard has rejected an input, and a giveaway it created
\* with the largest winner count is in the store.
C22_Witness ==
    /\ probe.fn = "wizard"
    /\ probe.reply = "rejected"
    /\ \E r \in Records : r.winner_count = MaxWinners

\* C23. No two giveaways receive the same ID, so the creation of a giveaway
\* never writes over a record that is in the store: the record under an ID
\* that is a key stays the record that was created under it.
C23_CreateNeverOverwrites ==
    [][\A id \in GiveawayIds :
          HasGiveaway(data, id)
          => get_giveaway(data', id).created_at = get_giveaway(data, id).created_at]_vars

\* C24. When an error leaves the end transition of a giveaway part-way, a
\* later sweep runs the transition for that giveaway again.
C24_AbortedTransitionRerun ==
    \A c \in Serials : (c \in probe.raised) ~> (sent[c].ends > 1)

\* C25. No failure of a send during end_giveaway leaves end_giveaway.
C25_NoSendFailureLeaves ==
    probe.fn = "errors" => probe.raised = {}

\* C26. Ending a giveaway that has no active participants: the coroutine
\* goes on to announce_no_winners exactly in that case, the status is then
\* ended and the winner list of the giveaway is as it was; and
\* announce_no_winners sends one announcement batch to the broadcast chats.
C26_NoParticipantsAnnounced ==
    /\ [][\A t \in Tasks :
            (task'[t] # task[t] /\ task'[t].pc \in {"announce_no_winners", "announce_winners"})
            => /\ (task'[t].pc = "announce_no_winners")
                    <=> (Len(get_participants(data, task'[t].gid)) = 0)
               /\ get_giveaway(data', task'[t].gid).status = "ended"
               /\ task'[t].pc = "announce_no_winners"
                    => WinnersOf(data', task'[t].gid) = WinnersOf(data, task'[t].gid)]_vars
    /\ [][\A t \in Tasks :
            announce_no_winners(t)
            => sent'[task[t].rec].ann = sent[task[t].rec].ann + 1]_vars

\* C26 witness: a giveaway without participants has been ended and its
\* transition has returned: no winner, one announcement batch.
C26_Witness ==
    \E id \in GiveawayIds :
        /\ EndCompleted(id)
        /\ Len(get_participants(data, id)) = 0
        /\ WinnersOf(data, id) = <<>>
        /\ sent[RecordOf(id)].ann = 1
        /\ sent[RecordOf(id)].dm = 0

\* C27. Round trip: for every Giveaway g the call
\* Giveaway.from_dict(g.giveaway_id, g.to_dict()) succeeds and gives a
\* Giveaway with the start time, end time, status and prize type of g.
C27_RoundTrip ==
    (probe.fn = "round_trip" /\ probe.done)
    => /\ probe.ok
       /\ probe.out.start_time = probe.g.start_time
       /\ probe.out.end_time = probe.g.end_time
       /\ probe.out.status = probe.g.status
       /\ probe.out.prize_type = probe.g.prize_type

\* C28. After any sequence of add_log and get_recent_logs calls the stored
\* log holds exactly the min(n, LogLimit) entries appended last, n being the
\* number of entries appended.
C28_LogKeepsNewest ==
    probe.fn = "logs"
    => {data.logs[i].timestamp : i \in 1..Len(data.logs)}
         = (probe.n - Min(probe.n, LogLimit) + 1)..probe.n

\* C29. After any sequence of ban_user and unban_user calls: a user has at
\* most one active ban record, and is_banned(u) holds exactly for the users
\* whose last successful call was a ban; the ban list never loses a record
\* (unban_user marks the active record inactive); ban_user for a banned user
\* returns False and changes nothing.
C29_BanList ==
    /\ [](\A u \in Users : /\ Cardinality(ActiveBans(u)) <= 1
                           /\ probe.fn = "bans"
                                => (is_banned(gate.banned, u) <=> u \in probe.active))
    /\ [][/\ Len(gate'.banned) >= Len(gate.banned)
          /\ \A i \in 1..Len(gate.banned) :
                gate'.banned[i].user_id = gate.banned[i].user_id]_vars
    /\ [][\A u \in Users :
            /\ (BanCall(u) /\ u \in BannedNow)
                 => (probe'.ret = "False" /\ gate' = gate /\ data' = data /\ file' = file)
            /\ (UnbanCall(u) /\ u \in BannedNow)
                 => /\ probe'.ret = "True"
                    /\ Len(gate'.banned) = Len(gate.banned)
                    /\ ~is_banned(gate'.banned, u)]_vars

\* C29 witness: a user was banned, unbanned and banned again, and the last
\* call, a ban_user for that user, returned False: the list holds the
\* inactive record and the active one.
C29_Witness ==
    /\ probe.fn = "bans"
    /\ probe.ret = "False"
    /\ \E u \in Users :
          /\ Cardinality(ActiveBans(u)) = 1
          /\ \E i \in 1..Len(gate.banned) :
                gate.banned[i].user_id = u /\ ~gate.banned[i].active

C31_ConstructNeverFails ==
    (probe.fn = "load" /\ probe.done) =>
        /\ ~probe.raised
        /\ probe.before.kind # "json" => probe.data = get_default_data
        /\ probe.before.kind = "json" =>
              /\ probe.data.keys = TopKeys
              /\ probe.data.settings = SettingKeys
              /\ probe.data.defaulted \cap
                     (probe.before.value.keys \cup probe.before.value.settings) = {}
              /\ probe.data.giveaways = probe.before.value.giveaways
        /\ (probe.disk # probe.before /\ probe.before.kind # "missing") =>
              probe.backup = probe.before

\* C32: when the process is stopped, every change made to the store before
\* the stop is in the backing file and the jobs of the scheduler are gone,
\* so the store loaded by the next start is the store that was in memory.
C32_ShutdownFlushes ==
    [][Restart => (data' = data /\ jobs' = {})]_vars

\* C33: the subscription check fails closed: a required channel whose lookup
\* or membership lookup raised is in the missing list and the result is
\* not-subscribed; the result is subscribed exactly when every required
\* channel was checked without error and the user is a member of each.
C33_FailsClosed ==
    (probe.fn = "subscription" /\ probe.done) =>
        LET required == {probe.channels[i] : i \in 1..Len(probe.channels)}
            missed == {probe.missing[i].username : i \in 1..Len(probe.missing)}
        IN  /\ \A c \in required : probe.world[c] \in Errors => (c \in missed /\ ~probe.ok)
            /\ probe.ok <=> \A c \in required : probe.world[c] = "member"
            /\ \A c \in required : probe.world[c] = "member" => c \notin missed
C33_Witness ==
    /\ probe.fn = "subscription" /\ probe.done /\ ~probe.ok
    /\ Len(probe.channels) = 2
    /\ probe.world[probe.channels[1]] = "member"
    /\ probe.world[probe.channels[2]] = "member_error"
    /\ probe.missing = <<[username |-> probe.channels[2], id |-> "none"]>>

\* C34: two mutating store calls made by two tasks at the same time leave the
\* store as one of the two serial orders of the calls leaves it, and while one
\* call is between its first and its last step the other is not.
C34_CallsSerial ==
    probe.fn = "serial" =>
        LET c == probe.calls
            ab == CallResult(CallResult(probe.st0, c[1]).st, c[2]).st
            ba == CallResult(CallResult(probe.st0, c[2]).st, c[1]).st
        IN  /\ \E t \in Coroutines : probe.pc[t] \in {"call", "done"}
            /\ (\A t \in Coroutines : probe.pc[t] = "done") => Store \in {ab, ba}
C34_Witness ==
    /\ probe.fn = "serial"
    /\ \A t \in Coroutines : probe.pc[t] = "done"
    /\ probe.calls = <<[name |-> "add_participant", u |-> 1],
                       [name |-> "add_participant", u |-> 2]>>
    /\ probe.st0.ctr = auto_save_threshold - 2
    /\ probe.st0.data.participants = <<[k |-> <<0, 1>>, v |-> <<>>]>>
    /\ Len(get_participants(data, <<0, 1>>)) = 2
    /\ get_giveaway(data, <<0, 1>>).participants_count = 2
    /\ file # probe.st0.file

\* C35: every end transition that has completed has left exactly one
\* giveaway_ended log entry for its giveaway, also when the giveaway had no
\* participants; a repeated call of end_giveaway leaves none.
C35_EndLoggedOnce ==
    \A id \in GiveawayIds :
        EndCompleted(id) =>
            Cardinality({i \in 1..Len(data.logs) :
                            /\ data.logs[i].type = "giveaway_ended"
                            /\ data.logs[i].giveaway_id = id}) = 1

\* C36: once the scheduler started at boot is running, every giveaway that
\* is active and has not reached its end time, the ones made by the creation
\* flow included, has its end job on that scheduler, keyed by its ID.
C36_CreatedIsScheduled ==
    \A id \in GiveawayIds :
        (phase = "running" /\ StatusOf(id) = "active" /\ get_giveaway(data, id).end_time > now)
            => id \in JobIds(jobs)

\* C37: a join is stored only while the giveaway is running: its status is
\* active and start_time <= now < end_time; a join before the start time
\* stores nothing.
C37_JoinOnlyWhileRunning ==
    [][\A id \in GiveawayIds :
          (HasGiveaway(data, id) /\ Len(Bucket(data', id)) > Len(Bucket(data, id)))
          => LET g == get_giveaway(data, id) IN
             /\ g.status = "active"
             /\ g.start_time <= now
             /\ now < g.end_time]_vars

\* C38: one wizard session that reached its preview makes at most one
\* giveaway, however often confirm_create is delivered: no more records are
\* stored or announced than sessions were completed, and no two IDs of the
\* store refer to the same record.
C38_OneSessionOneGiveaway ==
    probe.fn = "confirm" =>
        /\ Len(probe.giveaways) <= probe.sessions
        /\ probe.announced <= probe.sessions
        /\ \A i, j \in 1..Len(probe.giveaways) :
              i # j => probe.giveaways[i].v # probe.giveaways[j].v

\* C39: a chat that remove_broadcast_chat has marked inactive can be added
\* again: add_broadcast_chat for the same username and chat ID returns True
\* and get_broadcast_chats returns the chat again.
C39_RemovedChatCanBeAdded ==
    [][\A c \in ChatInfos :
          (/\ AddBroadcastChat(c)
           /\ \E i \in 1..Len(probe.chats) :
                 /\ probe.chats[i].username = c.username
                 /\ probe.chats[i].chat_id = c.chat_id
                 /\ ~probe.chats[i].active)
          => /\ probe'.ret = "True"
             /\ \E i \in 1..Len(get_broadcast_chats(probe'.chats)) :
                   get_broadcast_chats(probe'.chats)[i].username = c.username]_vars

\* C40: the giveaway ID and the number (user ID or page) that the handlers
\* of the remove_part_ and admin_parts_ buttons parse out of the callback
\* data are the ones that were put into the button.
C40_ButtonRoundTrip ==
    (probe.fn = "button" /\ probe.done) =>
        /\ probe.out.ok
        /\ probe.out.giveaway_id = probe.giveaway_id
        /\ probe.out.n = probe.n

====
